---- MODULE Spec2Model ----
(***************************************************************************)
(* Model of ContextCache (src/src/ai/cache/ContextCache.ts): the cache of  *)
(* project-context bundles keyed by a file list, with age- and             *)
(* staleness-based invalidation, bounded capacity and JSON snapshots.      *)
(*                                                                         *)
(* Strings are sequences of UTF-16 code units (97 = a, 98 = b, 124 = |,    *)
(* 58 = :, 48.. = digits), so that sorting, joining and formatting are     *)
(* computed as the code computes them.  An md5 digest is modelled by the   *)
(* text it digests (md5 is taken to be collision-free).                    *)
(***************************************************************************)
EXTENDS Integers, Sequences, FiniteSets, TLC

\* ------------------------------------------------------------------ bounds
\* new ContextCache(maxSize, maxAgeMinutes): the configured capacity.
MaxSize == 2
\* this.maxAge, in clock units (the code's unit is the millisecond).
MaxAge == 1
\* The clock stops advancing once an entry can be older than maxAge.
MaxTime == MaxAge + 1
\* getCachedContext is not called once hits + misses reaches this.
MaxGets == 1

\* ------------------------------------------------------------------ strings
PathA == <<97>>
PathB == <<98>>
\* The file name "a|b": legal on POSIX file systems.
PathAB == <<97, 124, 98>>

Paths == {PathA, PathB, PathAB}

Pipe == <<124>>
Colon == <<58>>

\* String(n) of a non-negative integer: its decimal digits.
RECURSIVE Digits(_)
Digits(n) ==
    IF n < 10 THEN <<48 + n>> ELSE Digits(n \div 10) \o <<48 + (n % 10)>>

\* s < t in the order Array.prototype.sort uses by default (UTF-16 code units).
RECURSIVE StrLess(_, _)
StrLess(s, t) ==
    IF t = <<>> THEN FALSE
    ELSE IF s = <<>> THEN TRUE
    ELSE IF Head(s) # Head(t) THEN Head(s) < Head(t)
    ELSE StrLess(Tail(s), Tail(t))

\* Insert x into the sorted list xs, after the elements that are not greater.
RECURSIVE InsertSorted(_, _)
InsertSorted(x, xs) ==
    IF xs = <<>> THEN <<x>>
    ELSE IF StrLess(x, Head(xs)) THEN <<x>> \o xs
    ELSE <<Head(xs)>> \o InsertSorted(x, Tail(xs))

\* [...files].sort()
RECURSIVE SortStrings(_)
SortStrings(xs) ==
    IF xs = <<>> THEN <<>>
    ELSE InsertSorted(xs[Len(xs)], SortStrings(SubSeq(xs, 1, Len(xs) - 1)))

\* xs.join(sep)
RECURSIVE Join(_, _)
Join(xs, sep) ==
    IF xs = <<>> THEN <<>>
    ELSE IF Len(xs) = 1 THEN xs[1]
    ELSE xs[1] \o sep \o Join(Tail(xs), sep)

\* ------------------------------------------------------------------ Map
\* A Map<string, CacheEntry> is the sequence of its [key, entry] pairs in
\* insertion order.
MapHas(m, k) == \E i \in 1..Len(m) : m[i].key = k

MapIndex(m, k) == CHOOSE i \in 1..Len(m) : m[i].key = k

MapGet(m, k) == m[MapIndex(m, k)].entry

\* Map.prototype.delete
MapDelete(m, k) ==
    IF MapHas(m, k)
    THEN LET i == MapIndex(m, k) IN SubSeq(m, 1, i - 1) \o SubSeq(m, i + 1, Len(m))
    ELSE m

\* Map.prototype.set: an existing key keeps its position.
MapSet(m, k, e) ==
    IF MapHas(m, k)
    THEN [m EXCEPT ![MapIndex(m, k)] = [key |-> k, entry |-> e]]
    ELSE Append(m, [key |-> k, entry |-> e])

MapKeys(m) == {m[i].key : i \in 1..Len(m)}

\* new Map(pairs): later pairs overwrite earlier ones of the same key.
RECURSIVE MapFromEntries(_)
MapFromEntries(pairs) ==
    IF pairs = <<>> THEN <<>>
    ELSE LET p == pairs[Len(pairs)]
         IN MapSet(MapFromEntries(SubSeq(pairs, 1, Len(pairs) - 1)), p[1], p[2])

\* A faulty variant of MapEntries: the Map handed to JSON.stringify as it is, which
\* serialises it as {} and loses every entry.
MapEntriesOfBareMap(m) == <<>>

\* Array.from(map.entries())
MapEntries(m) == [i \in 1..Len(m) |-> <<m[i].key, m[i].entry>>]

\* ------------------------------------------------------------------ values
\* Two ProjectContext bundles.
Bundle1 == [relatedFiles |-> <<>>, totalFiles |-> 0]
Bundle2 == [relatedFiles |-> <<PathA>>, totalFiles |-> 1]

Bundles == {Bundle1, Bundle2}

\* JSON.stringify(context).length, for the two fields the bundles carry:
\* brackets, the quoted paths and the digits of the count.
RECURSIVE QuotedLength(_)
QuotedLength(xs) ==
    IF xs = <<>> THEN 0 ELSE Len(Head(xs)) + 2 + QuotedLength(Tail(xs))

JsonLength(context) ==
    2 + QuotedLength(context.relatedFiles) + Len(Digits(context.totalFiles))

\* this.stats: a CacheStats object, or (after an import of a snapshot with no
\* stats) undefined.
StatsObject(h, m, s, e) ==
    [kind |-> "object", hits |-> h, misses |-> m, size |-> s, entries |-> e]

StatsUndefined ==
    [kind |-> "undefined", hits |-> 0, misses |-> 0, size |-> 0, entries |-> 0]

\* A file of the file system, as fs.existsSync, fs.promises.readFile and
\* fs.promises.stat see it.
File(e, r, mt, len, sz) ==
    [exists |-> e, readable |-> r, mtime |-> mt, length |-> len, size |-> sz]

VARIABLES
    cache,      \* this.cache
    stats,      \* this.stats
    now,        \* Date.now()
    fs,         \* the files the cache fingerprints
    disk,       \* the snapshot file exportCache writes and importCache reads
    exported,   \* history: the cache and stats the last exportCache serialised
    last,       \* history: the last call, its arguments and its outcome
    original,       \* computeDiff: originalLines
    modified,       \* computeDiff: modifiedLines
    oldIndex,       \* computeDiff: oldIndex
    newIndex,       \* computeDiff: newIndex
    hunks,          \* computeDiff: hunks
    currentHunk,    \* computeDiff: the place of currentHunk in hunks, 0 for null
    iterations,     \* history: the iterations of the loop of computeDiff so far
    analysis,       \* what analyzeDiff returned, once it has
    intent,         \* FilePathExtractor: the intent given
    present,        \* FilePathExtractor: the files fs.existsSync finds
    extracted,      \* what extractFilePaths returned, once it has
    primary,        \* what extractPrimaryFile returned, once it has
    tree,           \* scanDirectory: the directory tree of the project root
    structure,      \* what scanDirectory returned, once it has
    plan,           \* processIntent: the plan, its step files and explicit files
    locked,         \* the files readFile fails on
    collected,      \* what collectContext returned, once it has
    calc,           \* Calculator: the last call and its outcome
    suspended       \* ContextCache: the calls waiting at an await

cacheVars == <<cache, stats, now, fs, disk, exported, last>>
diffVars == <<original, modified, oldIndex, newIndex, hunks, currentHunk, iterations, analysis>>

pathVars == <<intent, present, extracted, primary>>
scanVars == <<tree, structure>>
collectVars == <<plan, locked, collected>>
calcVars == <<calc>>
asyncVars == <<suspended>>

\* What the handlers of one component leave alone: the other components.
notCache == <<diffVars, pathVars, scanVars, collectVars, calcVars, asyncVars>>
notDiff == <<cacheVars, pathVars, scanVars, collectVars, calcVars, asyncVars>>
notPaths == <<cacheVars, diffVars, scanVars, collectVars, calcVars, asyncVars>>
notScan == <<cacheVars, diffVars, pathVars, collectVars, calcVars, asyncVars>>
notCollect == <<cacheVars, diffVars, scanVars, calcVars, asyncVars>>
notCalc == <<cacheVars, diffVars, pathVars, scanVars, collectVars, asyncVars>>
notAsync == <<diffVars, pathVars, scanVars, collectVars, calcVars>>

vars == <<cacheVars, diffVars, pathVars, scanVars, collectVars, calcVars, asyncVars>>

\* ------------------------------------------------------------------ helpers
\* A faulty variant of generateKey: the paths joined in the order given.
generateKeyUnsorted(files) == Join(files, Pipe)

\* generateKey: sort a copy of the paths, join with '|', digest.
generateKey(files) == Join(SortStrings(files), Pipe)

\* A faulty variant of FileStamp: the modification time left out.
FileStampWithoutMtime(file) == file \o Colon \o Digits(fs[file].length)

\* The text computeFilesHash feeds the digest for one file.
FileStamp(file) ==
    file \o Colon \o Digits(fs[file].mtime) \o Colon \o Digits(fs[file].length)

\* computeFilesHash: the files in the order given; a file that does not exist,
\* or whose read or stat throws, adds nothing.
RECURSIVE computeFilesHash(_)
computeFilesHash(files) ==
    IF files = <<>> THEN <<>>
    ELSE LET file == Head(files)
         IN (IF fs[file].exists /\ fs[file].readable THEN FileStamp(file) ELSE <<>>)
            \o computeFilesHash(Tail(files))

\* A faulty variant of checkFilesChanged: the hash recomputed over the sorted paths.
checkFilesChangedSorted(files, oldHash) ==
    computeFilesHash(SortStrings(files)) # oldHash

checkFilesChanged(files, oldHash) == computeFilesHash(files) # oldHash

\* A faulty variant of getExpired: expired from an age of maxAge on.
getExpiredAtMaxAge(entry) == now - entry.timestamp >= MaxAge

\* getCachedContext's expiry test.
getExpired(entry) == now - entry.timestamp > MaxAge

\* A faulty variant of cleanupExpiredTest: expired from an age of maxAge on.
cleanupExpiredAtMaxAge(entry) == now - entry.timestamp >= MaxAge

\* cleanupExpired's expiry test.
cleanupExpiredTest(entry) == now - entry.timestamp > MaxAge

\* The loop of evictOldest from position i on: the first key whose timestamp
\* is below every earlier candidate's, starting from oldestTime = Date.now().
\* <<>> is null.
RECURSIVE OldestKey(_, _, _, _)
OldestKey(m, i, oldestKey, oldestTime) ==
    IF i > Len(m) THEN oldestKey
    ELSE IF m[i].entry.timestamp < oldestTime
         THEN OldestKey(m, i + 1, <<m[i].key>>, m[i].entry.timestamp)
         ELSE OldestKey(m, i + 1, oldestKey, oldestTime)

evictOldest(m) ==
    LET oldestKey == OldestKey(m, 1, <<>>, now)
    IN IF oldestKey # <<>> THEN MapDelete(m, oldestKey[1]) ELSE m

\* updateCacheSize: the sum of the bundles' JSON lengths.
RECURSIVE updateCacheSize(_)
updateCacheSize(m) ==
    IF m = <<>> THEN 0
    ELSE JsonLength(Head(m).entry.context) + updateCacheSize(Tail(m))

\* this.stats.entries = this.cache.size; this.updateCacheSize()
RefreshStats(s, m) ==
    [s EXCEPT !.entries = Len(m), !.size = updateCacheSize(m)]

\* A write to a property of this.stats throws a TypeError when stats is undefined.
StatsMissing == stats.kind = "undefined"

\* The attributes of a file an edit can change.
Attrs == {"mtime", "length", "size"}

\* History of the last call.  follows says that the call continues the scenario
\* set(files), then at most one edit of a member of files, then this call on
\* the same files; edit and path are the attribute and the file edited in that
\* scenario, and context the bundle it stored; age is the age of
\* the entry a get looked up (-1 when there was none); hits and misses are the
\* counters before the call.  context and result are <<>> for none or null.
NoCall ==
    [op |-> "none", edit |-> "none", follows |-> FALSE, files |-> <<>>,
     path |-> <<>>, context |-> <<>>, result |-> <<>>, removed |-> 0,
     raised |-> FALSE, age |-> -1, hits |-> 0, misses |-> 0]

Follows(files) ==
    \/ last.op = "set" /\ last.files = files /\ ~last.raised
    \/ last.op \in Attrs /\ last.follows /\ last.files = files

Call(op, files, context, result, removed, raised, age) ==
    [op |-> op, follows |-> Follows(files), files |-> files,
     edit |-> IF Follows(files) /\ last.op \in Attrs THEN last.op ELSE "none",
     path |-> IF Follows(files) THEN last.path ELSE <<>>,
     context |-> IF op = "set" THEN context
                 ELSE IF Follows(files) THEN last.context ELSE <<>>,
     result |-> result, removed |-> removed, raised |-> raised, age |-> age,
     hits |-> stats.hits, misses |-> stats.misses]

\* ------------------------------------------------------------------ operations
\* What getCachedContext finds for a file list: "absent", "expired", "stale"
\* or "hit", and the bundle of a hit.
Lookup(files) ==
    LET key == generateKey(files)
    IN IF ~MapHas(cache, key) THEN [outcome |-> "absent", context |-> <<>>]
       ELSE LET entry == MapGet(cache, key)
            IN IF getExpired(entry) THEN [outcome |-> "expired", context |-> <<>>]
               ELSE IF checkFilesChanged(entry.files, entry.hash)
               THEN [outcome |-> "stale", context |-> <<>>]
               ELSE [outcome |-> "hit", context |-> <<entry.context>>]

getCachedContext(files) ==
    LET key == generateKey(files)
        found == Lookup(files)
    IN /\ cache' = IF found.outcome \in {"expired", "stale"}
                   THEN MapDelete(cache, key) ELSE cache
       /\ stats' = IF StatsMissing THEN stats
                   ELSE IF found.outcome = "hit" THEN [stats EXCEPT !.hits = @ + 1]
                   ELSE [stats EXCEPT !.misses = @ + 1]
       /\ last' = Call("get", files, <<>>,
                       IF StatsMissing THEN <<>> ELSE found.context, 0, StatsMissing,
                       IF MapHas(cache, key) THEN now - MapGet(cache, key).timestamp
                       ELSE -1)
       /\ UNCHANGED <<now, fs, disk, exported, notCache>>

setCachedContext(files, context) ==
    LET key == generateKey(files)
        entry == [context |-> context, timestamp |-> now,
                  hash |-> computeFilesHash(files), files |-> files]
        room == IF Len(cache) >= MaxSize THEN evictOldest(cache) ELSE cache
        stored == MapSet(room, key, entry)
    IN /\ cache' = stored
       /\ stats' = IF StatsMissing THEN stats ELSE RefreshStats(stats, stored)
       /\ last' = Call("set", files, <<context>>, <<>>, 0, StatsMissing, -1)
       /\ UNCHANGED <<now, fs, disk, exported, notCache>>

invalidateCache(files) ==
    LET key == generateKey(files)
        deleted == MapHas(cache, key)
        left == MapDelete(cache, key)
    IN /\ cache' = left
       /\ stats' = IF deleted /\ ~StatsMissing THEN RefreshStats(stats, left) ELSE stats
       /\ last' = Call("invalidate", files, <<>>, <<>>, 0, deleted /\ StatsMissing, -1)
       /\ UNCHANGED <<now, fs, disk, exported, notCache>>

\* A faulty variant of ClearedStats: the counters reset as well.
ClearedStatsAndCounters(s) ==
    [s EXCEPT !.entries = 0, !.size = 0, !.hits = 0, !.misses = 0]

\* this.stats.entries = 0; this.stats.size = 0
ClearedStats(s) == [s EXCEPT !.entries = 0, !.size = 0]

clearCache ==
    /\ cache' = <<>>
    /\ stats' = IF StatsMissing THEN stats ELSE ClearedStats(stats)
    /\ last' = Call("clear", <<>>, <<>>, <<>>, 0, StatsMissing, -1)
    /\ UNCHANGED <<now, fs, disk, exported, notCache>>

\* The entries cleanupExpired keeps, in order.
RECURSIVE Unexpired(_)
Unexpired(m) ==
    IF m = <<>> THEN <<>>
    ELSE (IF cleanupExpiredTest(Head(m).entry) THEN <<>> ELSE <<Head(m)>>)
         \o Unexpired(Tail(m))

cleanupExpired ==
    LET left == Unexpired(cache)
        removed == Len(cache) - Len(left)
    IN /\ cache' = left
       /\ stats' = IF removed > 0 /\ ~StatsMissing THEN RefreshStats(stats, left)
                   ELSE stats
       /\ last' = Call("cleanup", <<>>, <<>>, <<>>, removed, removed > 0 /\ StatsMissing, -1)
       /\ UNCHANGED <<now, fs, disk, exported, notCache>>

\* The snapshot file: kind is "missing" (no file), "garbage" (not JSON), "null"
\* (the JSON text null) or "object"; entriesKind is "array", "undefined" (no
\* entries key) or "number" (a value that is not iterable).  JSON.stringify
\* leaves out a key whose value is undefined, so stats comes back undefined.
Snapshot(kind, entriesKind, entries, st, timestamp) ==
    [kind |-> kind, entriesKind |-> entriesKind, entries |-> entries,
     stats |-> st, timestamp |-> timestamp]

NoSnapshot == Snapshot("missing", "undefined", <<>>, StatsUndefined, 0)

exportCache ==
    /\ disk' = Snapshot("object", "array", MapEntries(cache), stats, now)
    /\ exported' = [cache |-> cache, stats |-> stats]
    /\ last' = Call("export", <<>>, <<>>, <<>>, 0, FALSE, -1)
    /\ UNCHANGED <<cache, stats, now, fs, notCache>>

\* importCache: whatever readFile, JSON.parse or new Map throws is caught and
\* logged; the two assignments happen only when none of them threw.
importCache ==
    LET parsed == disk.kind = "object" /\ disk.entriesKind # "number"
    IN /\ cache' = IF ~parsed THEN cache
                   ELSE IF disk.entriesKind = "array" THEN MapFromEntries(disk.entries)
                   ELSE <<>>
       /\ stats' = IF parsed THEN disk.stats ELSE stats
       /\ last' = Call("import", <<>>, <<>>, <<>>, 0, FALSE, -1)
       /\ UNCHANGED <<now, fs, disk, exported, notCache>>

\* ------------------------------------------------------------------ environment
\* The clock advances between calls.
Tick ==
    /\ now < MaxTime
    /\ now' = now + 1
    /\ UNCHANGED <<cache, stats, fs, disk, exported, last, notCache>>

\* An edit of a file that changes one attribute alone: fs.utimes for the
\* modification time; a rewrite within the same millisecond for the content
\* length (code units) or the byte size (a two-byte character for two
\* one-byte ones keeps the size and changes the length, and so on).
ChangeFile(path, attr) ==
    /\ fs[path].exists
    /\ fs' = [fs EXCEPT ![path] =
                 IF attr = "mtime" THEN [@ EXCEPT !.mtime = IF @ = 1 THEN 2 ELSE 1]
                 ELSE IF attr = "length" THEN [@ EXCEPT !.length = IF @ = 3 THEN 4 ELSE 3]
                 ELSE [@ EXCEPT !.size = IF @ = 4 THEN 5 ELSE 4]]
    /\ last' = [NoCall EXCEPT
                  !.op = attr,
                  !.follows = (last.op = "set" /\ ~last.raised
                               /\ \E i \in 1..Len(last.files) : last.files[i] = path),
                  !.files = IF last.op = "set" THEN last.files ELSE <<>>,
                  !.path = path,
                  !.context = IF last.op = "set" THEN last.context ELSE <<>>,
                  !.hits = stats.hits, !.misses = stats.misses]
    /\ UNCHANGED <<cache, stats, now, disk, exported, notCache>>

\* chmod: the file stays, reading it throws (or no longer throws).
ChmodFile(path) ==
    /\ fs[path].exists
    /\ fs' = [fs EXCEPT ![path].readable = ~@]
    /\ last' = Call("chmod", <<>>, <<>>, <<>>, 0, FALSE, -1)
    /\ UNCHANGED <<cache, stats, now, disk, exported, notCache>>

\* An edit of the snapshot file behind the cache's back: "delete", "truncate"
\* (no longer JSON), "null" (the JSON text null), "no-entries", "bad-entries"
\* (entries is a number), "no-stats", "empty" (the JSON text {}).
DamageSnapshot(how) ==
    /\ disk.kind = "object"
    /\ disk' = IF how = "delete" THEN [disk EXCEPT !.kind = "missing"]
               ELSE IF how = "truncate" THEN [disk EXCEPT !.kind = "garbage"]
               ELSE IF how = "null" THEN [disk EXCEPT !.kind = "null"]
               ELSE IF how = "no-entries"
               THEN [disk EXCEPT !.entriesKind = "undefined", !.entries = <<>>]
               ELSE IF how = "bad-entries"
               THEN [disk EXCEPT !.entriesKind = "number", !.entries = <<>>]
               ELSE IF how = "no-stats" THEN [disk EXCEPT !.stats = StatsUndefined]
               ELSE [disk EXCEPT !.entriesKind = "undefined", !.entries = <<>>,
                                 !.stats = StatsUndefined]
    /\ last' = Call("damage", <<>>, <<>>, <<>>, 0, FALSE, -1)
    /\ UNCHANGED <<cache, stats, now, fs, exported, notCache>>

Damages ==
    {"delete", "truncate", "null", "no-entries", "bad-entries", "no-stats", "empty"}

\* ------------------------------------------------------------------ DiffAnalyzer: texts
\* A text is the sequence of its lines, what split('\n') makes of it: the
\* empty text is the one empty line.  A line is the sequence of its tokens;
\* white space separates the tokens and is not kept.
MaxLines == 2

\* The line break between two lines of a text, as a token of the whole code.
NL == "\n"

LineFooA == <<"function", "foo", "(", "a", ")", "{", "}">>
LineFoo == <<"function", "foo", "(", ")", "{", "}">>
LineBar == <<"export", "interface", "Bar", "{", "}">>
LineImportX == <<"import", "x", "from", "'x'">>
LineEmpty == <<>>

Lines == {LineFooA, LineFoo, LineBar, LineImportX, LineEmpty}

Texts == UNION {[1..n -> Lines] : n \in 1..MaxLines}

\* The text as the regular expressions see it: its lines joined by line breaks.
Code(text) == Join(text, <<NL>>)

\* The token at place i of the code, "" past its end.
Tok(code, i) == IF i \in 1..Len(code) THEN code[i] ELSE ""

\* \w+ : a token made of word characters only.
IsWord(t) == t \notin {"", NL, "(", ")", "{", "}", "=", "'x'", "\"x\""}

\* ['"]([^'"]+)['"] : a quoted token, and the text between its quotes.
IsQuoted(t) == t \in {"'x'", "\"x\""}
Unquote(t) == CASE t = "'x'" -> "x" [] t = "\"x\"" -> "x" [] OTHER -> t

\* \s* and \s+ between two tokens: the first place from i on that holds no
\* line break.
RECURSIVE SkipSpace(_, _)
SkipSpace(code, i) ==
    IF Tok(code, i) = NL THEN SkipSpace(code, i + 1) ELSE i

\* [^)]*\) : the place of the first ")" from i on, 0 when there is none.
RECURSIVE CloseParen(_, _)
CloseParen(code, i) ==
    IF i > Len(code) THEN 0
    ELSE IF code[i] = ")" THEN i
    ELSE CloseParen(code, i + 1)

NoMatch == [end |-> 0, name |-> "", params |-> <<>>]

\* One match of functionRegex of extractFunctions that begins at place i:
\* a keyword, a name, an optional "=", then a parameter list or "async".
MatchFunction(code, i) ==
    LET n == SkipSpace(code, i + 1)
        e == SkipSpace(code, n + 1)
        t == IF Tok(code, e) = "=" THEN SkipSpace(code, e + 1) ELSE e
        c == CloseParen(code, t + 1)
    IN  IF Tok(code, i) \in {"function", "const", "let", "var"} /\ IsWord(Tok(code, n))
        THEN IF Tok(code, t) = "(" /\ c > 0
             THEN [end |-> c, name |-> code[n], params |-> SubSeq(code, t + 1, c - 1)]
             ELSE IF Tok(code, t) = "async"
             THEN [end |-> t, name |-> code[n], params |-> <<>>]
             ELSE NoMatch
        ELSE NoMatch

\* One match of functionRegex of extractFunctionSignatures that begins at
\* place i: no "var", and a parameter list only.
MatchSignature(code, i) ==
    LET n == SkipSpace(code, i + 1)
        e == SkipSpace(code, n + 1)
        t == IF Tok(code, e) = "=" THEN SkipSpace(code, e + 1) ELSE e
        c == CloseParen(code, t + 1)
    IN  IF /\ Tok(code, i) \in {"function", "const", "let"}
           /\ IsWord(Tok(code, n))
           /\ Tok(code, t) = "("
           /\ c > 0
        THEN [end |-> c, name |-> code[n], params |-> SubSeq(code, t + 1, c - 1)]
        ELSE NoMatch

\* .*?from\s+['"] : the first "from" from j on that a quoted token follows,
\* with no line break before it; 0 when there is none.
RECURSIVE FromPlace(_, _)
FromPlace(code, j) ==
    IF j > Len(code) \/ code[j] = NL THEN 0
    ELSE IF code[j] = "from" /\ IsQuoted(Tok(code, SkipSpace(code, j + 1))) THEN j
    ELSE FromPlace(code, j + 1)

\* One match of importRegex that begins at place i.
MatchImport(code, i) ==
    LET f == FromPlace(code, SkipSpace(code, i + 1))
        q == SkipSpace(code, f + 1)
    IN  IF Tok(code, i) = "import" /\ f > 0
        THEN [end |-> q, name |-> Unquote(code[q]), params |-> <<>>]
        ELSE NoMatch

\* One match of exportRegex that begins at place i.
MatchExport(code, i) ==
    LET d == SkipSpace(code, i + 1)
        k == IF Tok(code, d) = "default" THEN SkipSpace(code, d + 1) ELSE d
        n == SkipSpace(code, k + 1)
    IN  IF /\ Tok(code, i) = "export"
           /\ Tok(code, k) \in {"class", "function", "const", "let", "var", "interface", "type"}
           /\ IsWord(Tok(code, n))
        THEN [end |-> n, name |-> code[n], params |-> <<>>]
        ELSE NoMatch

\* The matches of one regular expression over the code, as a loop of exec
\* calls finds them: from left to right, each search resuming after the
\* previous match.
MatchAt(kind, code, i) ==
    CASE kind = "function" -> MatchFunction(code, i)
      [] kind = "signature" -> MatchSignature(code, i)
      [] kind = "import" -> MatchImport(code, i)
      [] kind = "export" -> MatchExport(code, i)

RECURSIVE Matches(_, _, _)
Matches(kind, code, i) ==
    IF i > Len(code) THEN <<>>
    ELSE LET m == MatchAt(kind, code, i)
         IN  IF m.end > 0
             THEN <<m>> \o Matches(kind, code, m.end + 1)
             ELSE Matches(kind, code, i + 1)

Names(ms) == [i \in 1..Len(ms) |-> ms[i].name]

extractFunctions(text) == Names(Matches("function", Code(text), 1))

extractImports(text) == Names(Matches("import", Code(text), 1))

extractExports(text) == Names(Matches("export", Code(text), 1))

\* signatures[match[1]] = match[2], match after match: the Record keeps one
\* parameter list per name, the last one.
RECURSIVE SignaturesOf(_)
SignaturesOf(ms) ==
    IF ms = <<>> THEN <<>>
    ELSE LET m == ms[Len(ms)]
         IN  MapSet(SignaturesOf(SubSeq(ms, 1, Len(ms) - 1)), m.name, m.params)

extractFunctionSignatures(text) == SignaturesOf(Matches("signature", Code(text), 1))

\* xs.includes(x)
Includes(xs, x) == \E i \in 1..Len(xs) : xs[i] = x

\* The description of a function-added change: the template around the name.
FunctionAdded(name) ==
    <<<<70, 117, 110, 231, 227, 111, 32, 39>>,
      name,
      <<39, 32, 102, 111, 105, 32, 97, 100, 105, 99, 105, 111, 110, 97, 100, 97>>>>

\* The description of a function-removed change.
FunctionRemoved(name) ==
    <<<<70, 117, 110, 231, 227, 111, 32, 39>>,
      name,
      <<39, 32, 102, 111, 105, 32, 114, 101, 109, 111, 118, 105, 100, 97>>>>

\* The description of an import-added change.
ImportAdded(name) ==
    <<<<73, 109, 112, 111, 114, 116, 32, 39>>,
      name,
      <<39, 32, 102, 111, 105, 32, 97, 100, 105, 99, 105, 111, 110, 97, 100, 111>>>>

\* The description of an import-removed change.
ImportRemoved(name) ==
    <<<<73, 109, 112, 111, 114, 116, 32, 39>>,
      name,
      <<39, 32, 102, 111, 105, 32, 114, 101, 109, 111, 118, 105, 100, 111>>>>

\* The description of a removal: "Export 'name' foi removido - ...".
ExportRemoved(name) ==
    <<<<69, 120, 112, 111, 114, 116, 32, 39>>,
      name,
      <<39, 32, 102, 111, 105, 32, 114, 101, 109, 111, 118, 105, 100, 111, 32, 45, 32, 112, 111, 100, 101, 32, 113, 117, 101, 98, 114, 97, 114, 32, 99, 243, 100, 105, 103, 111, 32, 100, 101, 112, 101, 110, 100, 101, 110, 116, 101>>>>

\* The description of a signature-change.
SignatureChanged(name) ==
    <<<<65, 115, 115, 105, 110, 97, 116, 117, 114, 97, 32, 100, 97, 32, 102, 117, 110, 231, 227, 111, 32, 39>>,
      name,
      <<39, 32, 102, 111, 105, 32, 97, 108, 116, 101, 114, 97, 100, 97>>>>

\* A faulty variant of Impact: one impact per kind of name.
ImpactByKind(type) ==
    IF type \in {"function-added", "function-removed"} THEN "high" ELSE "low"

\* The impact detectSemanticChanges gives a change of each type.
Impact(type) ==
    CASE type = "function-added" -> "medium"
      [] type = "function-removed" -> "high"
      [] type = "import-added" -> "low"
      [] type = "import-removed" -> "medium"

Description(type, name) ==
    CASE type = "function-added" -> FunctionAdded(name)
      [] type = "function-removed" -> FunctionRemoved(name)
      [] type = "import-added" -> ImportAdded(name)
      [] type = "import-removed" -> ImportRemoved(name)

\* for (const x of xs) if (!ys.includes(x)) changes.push({type, name: x, ...})
RECURSIVE PushMissing(_, _, _)
PushMissing(xs, ys, type) ==
    IF xs = <<>> THEN <<>>
    ELSE (IF Includes(ys, Head(xs)) THEN <<>>
          ELSE <<[type |-> type, name |-> Head(xs),
                  description |-> Description(type, Head(xs)),
                  impact |-> Impact(type)]>>)
         \o PushMissing(Tail(xs), ys, type)

detectSemanticChanges(o, m) ==
    LET originalFunctions == extractFunctions(o)
        modifiedFunctions == extractFunctions(m)
        originalImports == extractImports(o)
        modifiedImports == extractImports(m)
    IN  PushMissing(modifiedFunctions, originalFunctions, "function-added")
        \o PushMissing(originalFunctions, modifiedFunctions, "function-removed")
        \o PushMissing(modifiedImports, originalImports, "import-added")
        \o PushMissing(originalImports, modifiedImports, "import-removed")

\* A breaking change; its suggestion is a fixed text and is left out.
BreakingChange(type, description) ==
    [type |-> type, description |-> description, affectedFiles |-> <<>>]

\* for (const exp of originalExports) if (!modifiedExports.includes(exp)) ...
RECURSIVE Removals(_, _)
Removals(originalExports, modifiedExports) ==
    IF originalExports = <<>> THEN <<>>
    ELSE (IF Includes(modifiedExports, Head(originalExports)) THEN <<>>
          ELSE <<BreakingChange("removal", ExportRemoved(Head(originalExports)))>>)
         \o Removals(Tail(originalExports), modifiedExports)

\* if (newSig && oldSig !== newSig): newSig is undefined when the modified
\* text has no signature of that name, and undefined and "" are both falsy.
SignatureDiffers(oldSig, modifiedSignatures, name) ==
    /\ MapHas(modifiedSignatures, name)
    /\ MapGet(modifiedSignatures, name) # <<>>
    /\ oldSig # MapGet(modifiedSignatures, name)

\* for (const [name, oldSig] of Object.entries(originalSignatures)) ...
RECURSIVE SignatureChanges(_, _)
SignatureChanges(originalSignatures, modifiedSignatures) ==
    IF originalSignatures = <<>> THEN <<>>
    ELSE LET s == Head(originalSignatures)
         IN  (IF SignatureDiffers(s.entry, modifiedSignatures, s.key)
              THEN <<BreakingChange("signature-change", SignatureChanged(s.key))>>
              ELSE <<>>)
             \o SignatureChanges(Tail(originalSignatures), modifiedSignatures)

detectBreakingChanges(o, m) ==
    Removals(extractExports(o), extractExports(m))
    \o SignatureChanges(extractFunctionSignatures(o), extractFunctionSignatures(m))

\* The lines of all the hunks, in order.
RECURSIVE AllLines(_)
AllLines(hs) ==
    IF hs = <<>> THEN <<>> ELSE Head(hs).lines \o AllLines(Tail(hs))

CountType(ls, type) == Cardinality({i \in 1..Len(ls) : ls[i].type = type})

calculateStats(hs) ==
    [additions |-> CountType(AllLines(hs), "add"),
     deletions |-> CountType(AllLines(hs), "remove"),
     modifications |-> CountType(AllLines(hs), "modified")]

\* The text 'Sem mudancas', its c with a cedilla (code unit 231).
SemMudancas == <<83, 101, 109, 32, 109, 117, 100, 97, 110, 231, 97, 115>>

\* The parts generateSummary pushes, in order.
SummaryParts(st, semanticChanges, breakingChanges) ==
    (IF st.additions > 0
     THEN <<<<43>> \o Digits(st.additions)
            \o <<32, 108, 105, 110, 104, 97, 115, 32, 97, 100, 105, 99, 105, 111, 110,
                 97, 100, 97, 115>>>>
     ELSE <<>>)
    \o (IF st.deletions > 0
        THEN <<<<45>> \o Digits(st.deletions)
               \o <<32, 108, 105, 110, 104, 97, 115, 32, 114, 101, 109, 111, 118, 105,
                    100, 97, 115>>>>
        ELSE <<>>)
    \o (IF Len(semanticChanges) > 0
        THEN <<Digits(Len(semanticChanges))
               \o <<32, 109, 117, 100, 97, 110, 231, 97, 115, 32, 115, 101, 109, 226,
                    110, 116, 105, 99, 97, 115>>>>
        ELSE <<>>)
    \o (IF Len(breakingChanges) > 0
        THEN <<<<9888, 65039, 32, 32>> \o Digits(Len(breakingChanges))
               \o <<32, 98, 114, 101, 97, 107, 105, 110, 103, 32, 99, 104, 97, 110,
                    103, 101, 115>>>>
        ELSE <<>>)

\* A faulty variant of generateSummary: the joined parts, with no text for
\* the case that there are none.
generateSummaryJoinOnly(st, semanticChanges, breakingChanges) ==
    Join(SummaryParts(st, semanticChanges, breakingChanges), <<44, 32>>)

\* parts.join(', ') || SemMudancas: the empty string is falsy.
generateSummary(st, semanticChanges, breakingChanges) ==
    LET joined == Join(SummaryParts(st, semanticChanges, breakingChanges), <<44, 32>>)
    IN  IF joined = <<>> THEN SemMudancas ELSE joined

\* ------------------------------------------------------------------ DiffAnalyzer: computeDiff
\* lines[index]: the line when there is one, undefined (no line) past the end.
LineAt(text, index) == IF index < Len(text) THEN <<text[index + 1]>> ELSE <<>>

\* A line of a hunk; oldLineNumber is 0 where the code leaves it out.
DiffLine(type, lineNumber, content, oldLineNumber) ==
    [type |-> type, lineNumber |-> lineNumber, content |-> content,
     oldLineNumber |-> oldLineNumber]

\* A faulty variant of AddLine: the line numbered from 0.
AddLineFromZero(m, ni) == DiffLine("add", ni, m[ni + 1], 0)

RemoveLine(o, oi) == DiffLine("remove", oi + 1, o[oi + 1], oi + 1)
AddLine(m, ni) == DiffLine("add", ni + 1, m[ni + 1], 0)

\* A faulty variant of Modification: the added line before the removed one.
ModificationAddFirst(o, m, oi, ni) == <<AddLine(m, ni), RemoveLine(o, oi)>>

\* The lines the "Modificacao" branch pushes.
Modification(o, m, oi, ni) == <<RemoveLine(o, oi), AddLine(m, ni)>>

\* The lines one iteration of the loop pushes; open tells whether currentHunk
\* is set when the iteration begins.
Pushed(o, m, oi, ni, open) ==
    IF LineAt(o, oi) = LineAt(m, ni)
    THEN IF open THEN <<DiffLine("unchanged", ni + 1, m[ni + 1], oi + 1)>> ELSE <<>>
    ELSE IF oi >= Len(o) THEN <<AddLine(m, ni)>>
    ELSE IF ni >= Len(m) THEN <<RemoveLine(o, oi)>>
    ELSE Modification(o, m, oi, ni)

\* A faulty variant of Closes: three unchanged lines close a hunk of any
\* length.
ClosesAfterThree(ls) ==
    /\ Len(ls) >= 3
    /\ \A i \in (Len(ls) - 2)..Len(ls) : ls[i].type = "unchanged"

\* lines.slice(-3)
LastLines(ls) == SubSeq(ls, IF Len(ls) > 3 THEN Len(ls) - 2 ELSE 1, Len(ls))

\* The test that closes a hunk at the end of an iteration.
Closes(ls) ==
    /\ Len(ls) > 0
    /\ \A i \in 1..Len(LastLines(ls)) : LastLines(ls)[i].type = "unchanged"
    /\ Len(ls) > 5

\* A faulty variant of LoopDone: the loop ends when either text is exhausted.
LoopDoneEither == oldIndex >= Len(original) \/ newIndex >= Len(modified)

\* The condition of the while loop, negated.
LoopDone == oldIndex >= Len(original) /\ newIndex >= Len(modified)

\* One iteration of the while loop of computeDiff.
computeDiffStep ==
    /\ ~LoopDone
    /\ LET same == LineAt(original, oldIndex) = LineAt(modified, newIndex)
           opens == ~same /\ currentHunk = 0
           hs1 == IF opens
                  THEN Append(hunks, [oldStart |-> oldIndex + 1, oldLines |-> 0,
                                      newStart |-> newIndex + 1, newLines |-> 0,
                                      lines |-> <<>>])
                  ELSE hunks
           cur == IF opens THEN Len(hs1) ELSE currentHunk
           pushed == Pushed(original, modified, oldIndex, newIndex, currentHunk # 0)
           hs2 == IF cur = 0 THEN hs1
                  ELSE [hs1 EXCEPT ![cur].lines = @ \o pushed,
                                   ![cur].oldLines = @ + CountType(pushed, "remove"),
                                   ![cur].newLines = @ + CountType(pushed, "add")]
       IN  /\ hunks' = hs2
           /\ currentHunk' = IF cur # 0 /\ Closes(hs2[cur].lines) THEN 0 ELSE cur
           /\ oldIndex' = IF same \/ oldIndex < Len(original) THEN oldIndex + 1 ELSE oldIndex
           /\ newIndex' = IF same \/ newIndex < Len(modified) THEN newIndex + 1 ELSE newIndex
    /\ iterations' = iterations + 1
    /\ UNCHANGED <<original, modified, analysis, notDiff>>

\* analyzeDiff, once computeDiff has returned its hunks.
analyzeDiff ==
    /\ original # <<>>
    /\ LoopDone
    /\ analysis = <<>>
    /\ LET semanticChanges == detectSemanticChanges(original, modified)
           breakingChanges == detectBreakingChanges(original, modified)
           st == calculateStats(hunks)
       IN  analysis' = <<[hunks |-> hunks,
                          semanticChanges |-> semanticChanges,
                          breakingChanges |-> breakingChanges,
                          stats |-> st,
                          summary |-> generateSummary(st, semanticChanges, breakingChanges)]>>
    /\ UNCHANGED <<original, modified, oldIndex, newIndex, hunks, currentHunk, iterations,
                   notDiff>>

\* No analysis under way.
DiffIdle ==
    /\ original = <<>>
    /\ modified = <<>>
    /\ oldIndex = 0
    /\ newIndex = 0
    /\ hunks = <<>>
    /\ currentHunk = 0
    /\ iterations = 0
    /\ analysis = <<>>

\* ------------------------------------------------------------------ regular expressions
\* A pattern over code units, as a tree of nodes of one shape: a node has a
\* kind k, a set of code units (kinds "in" and "out") and parts (the others).
OneOf(S) == [k |-> "in", set |-> S, parts |-> <<>>]
\* [^...]
NoneOf(S) == [k |-> "out", set |-> S, parts |-> <<>>]
Cat(ns) == [k |-> "cat", set |-> {}, parts |-> ns]
Alt(ns) == [k |-> "alt", set |-> {}, parts |-> ns]
\* n*, greedy
Star(n) == [k |-> "star", set |-> {}, parts |-> <<n>>]
\* n+, greedy
Plus(n) == Cat(<<n, Star(n)>>)
\* ^ and $, without the m flag
Bol == [k |-> "bol", set |-> {}, parts |-> <<>>]
Eol == [k |-> "eol", set |-> {}, parts |-> <<>>]
\* (?!n)
NotAhead(n) == [k |-> "notahead", set |-> {}, parts |-> <<n>>]

\* The places where a match of node n that begins at place i of s can end
\* (the place of the next code unit to read), in the order in which a
\* backtracking matcher tries them: the first is the one it takes.
RECURSIVE Ends(_, _, _)
RECURSIVE EndsCat(_, _, _)
RECURSIVE EndsAlt(_, _, _)
RECURSIVE EndsCatEach(_, _, _)
RECURSIVE EndsStarEach(_, _, _, _)

Ends(n, s, i) ==
    CASE n.k = "in" -> IF i <= Len(s) /\ s[i] \in n.set THEN <<i + 1>> ELSE <<>>
      [] n.k = "out" -> IF i <= Len(s) /\ s[i] \notin n.set THEN <<i + 1>> ELSE <<>>
      [] n.k = "cat" -> EndsCat(n.parts, s, i)
      [] n.k = "alt" -> EndsAlt(n.parts, s, i)
      [] n.k = "star" -> EndsStarEach(n, s, i, Ends(n.parts[1], s, i)) \o <<i>>
      [] n.k = "bol" -> IF i = 1 THEN <<i>> ELSE <<>>
      [] n.k = "eol" -> IF i = Len(s) + 1 THEN <<i>> ELSE <<>>
      [] n.k = "notahead" -> IF Ends(n.parts[1], s, i) = <<>> THEN <<i>> ELSE <<>>

\* The parts one after the other.
EndsCat(ns, s, i) ==
    IF ns = <<>> THEN <<i>> ELSE EndsCatEach(Tail(ns), s, Ends(Head(ns), s, i))

\* The rest of a concatenation, from each end of its first part in turn.
EndsCatEach(ns, s, es) ==
    IF es = <<>> THEN <<>>
    ELSE EndsCat(ns, s, Head(es)) \o EndsCatEach(ns, s, Tail(es))

\* The alternatives from left to right.
EndsAlt(ns, s, i) ==
    IF ns = <<>> THEN <<>> ELSE Ends(Head(ns), s, i) \o EndsAlt(Tail(ns), s, i)

\* One more repetition, from each end of the body in turn; a repetition that
\* reads nothing is not repeated.
EndsStarEach(n, s, i, es) ==
    IF es = <<>> THEN <<>>
    ELSE (IF Head(es) > i THEN Ends(n, s, Head(es)) ELSE <<>>)
         \o EndsStarEach(n, s, i, Tail(es))

\* A pattern with one capture group: what is before the group, the group,
\* and what is after it.
Pattern(pre, cap, post) == [pre |-> pre, cap |-> cap, post |-> post]

NoExec == [from |-> 0, to |-> 0, end |-> 0]

\* The first way to match the group from one of the places es and the rest
\* after it.
RECURSIVE FirstCapture(_, _, _, _)
FirstCapture(p, s, from, es) ==
    IF es = <<>> THEN NoExec
    ELSE LET rest == Ends(p.post, s, Head(es))
         IN  IF rest # <<>> THEN [from |-> from, to |-> Head(es), end |-> Head(rest)]
             ELSE FirstCapture(p, s, from, Tail(es))

\* The first way to match the pattern with its group beginning at one of the
\* places starts.
RECURSIVE FirstFrom(_, _, _)
FirstFrom(p, s, starts) ==
    IF starts = <<>> THEN NoExec
    ELSE LET m == FirstCapture(p, s, Head(starts), Ends(p.cap, s, Head(starts)))
         IN  IF m.end > 0 THEN m ELSE FirstFrom(p, s, Tail(starts))

\* The match of the pattern that begins at place i, if there is one.
ExecAt(p, s, i) == FirstFrom(p, s, Ends(p.pre, s, i))

\* The texts of the capture group in all the matches of the pattern in s from
\* place i on, as a loop of exec calls or match with the g flag finds them.
RECURSIVE Captures(_, _, _)
Captures(p, s, i) ==
    IF i > Len(s) + 1 THEN <<>>
    ELSE LET m == ExecAt(p, s, i)
         IN  IF m.end = 0 THEN Captures(p, s, i + 1)
             ELSE <<SubSeq(s, m.from, m.to - 1)>>
                  \o Captures(p, s, IF m.end > i THEN m.end ELSE i + 1)

\* ------------------------------------------------------------------ FilePathExtractor
\* How many words an intent has at most.
MaxWords == 3

\* The code units of "/", "." and "`".
Slash == 47
Dot == 46
Backtick == 96

\* \s
Space == {9, 10, 11, 12, 13, 32, 160, 5760, 8232, 8233, 8239, 8287, 12288, 65279}
             \cup (8192..8202)
Letters == (65..90) \cup (97..122)
\* \w
WordUnits == Letters \cup (48..57) \cup {95}
\* [a-zA-Z0-9_-]
NameUnits == WordUnits \cup {45}
\* [a-zA-Z0-9]
AlphaNum == Letters \cup (48..57)
\* [^\\/:*?"<>|\r\n\s]
NotWindowsName == {92, 47, 58, 42, 63, 34, 60, 62, 124} \cup Space
\* [^\/\0\s]
NotUnixName == {47, 0} \cup Space

Empty == Cat(<<>>)

\* /[A-Z]:\\(?:[^\\/:*?"<>|\r\n\s]+\\)*[^\\/:*?"<>|\r\n\s]+\.\w+/gi
windowsPattern ==
    Pattern(Empty,
            Cat(<<OneOf(Letters), OneOf({58}), OneOf({92}),
                  Star(Cat(<<Plus(NoneOf(NotWindowsName)), OneOf({92})>>)),
                  Plus(NoneOf(NotWindowsName)), OneOf({Dot}), Plus(OneOf(WordUnits))>>),
            Empty)

\* /\/(?:[^\/\0\s]+\/)*[^\/\0\s]+\.\w+/g
unixPattern ==
    Pattern(Empty,
            Cat(<<OneOf({Slash}),
                  Star(Cat(<<Plus(NoneOf(NotUnixName)), OneOf({Slash})>>)),
                  Plus(NoneOf(NotUnixName)), OneOf({Dot}), Plus(OneOf(WordUnits))>>),
            Empty)

\* /`([^`]+\.\w+)`/g
backtickPattern ==
    Pattern(OneOf({Backtick}),
            Cat(<<Plus(NoneOf({Backtick})), OneOf({Dot}), Plus(OneOf(WordUnits))>>),
            OneOf({Backtick}))

\* (?:^|\s)(?!`) and (?!`)(?:\s|$), around the group of the last two patterns
Before == Cat(<<Alt(<<Bol, OneOf(Space)>>), NotAhead(OneOf({Backtick}))>>)
After == Cat(<<NotAhead(OneOf({Backtick})), Alt(<<OneOf(Space), Eol>>)>>)

\* /(?:^|\s)(?!`)([a-zA-Z0-9_-]+(?:\/[a-zA-Z0-9_-]+)*\.[a-zA-Z0-9]+)(?!`)(?:\s|$)/g
relativePattern ==
    Pattern(Before,
            Cat(<<Plus(OneOf(NameUnits)),
                  Star(Cat(<<OneOf({Slash}), Plus(OneOf(NameUnits))>>)),
                  OneOf({Dot}), Plus(OneOf(AlphaNum))>>),
            After)

\* /(?:^|\s)(?!`)([a-zA-Z0-9_-]+\.[a-zA-Z0-9]+)(?!`)(?:\s|$)/g
simpleFilePattern ==
    Pattern(Before,
            Cat(<<Plus(OneOf(NameUnits)), OneOf({Dot}), Plus(OneOf(AlphaNum))>>),
            After)

\* if (!paths.includes(x)) paths.push(x), for each x of xs in turn
RECURSIVE PushNew(_, _)
PushNew(paths, xs) ==
    IF xs = <<>> THEN paths
    ELSE PushNew(IF Includes(paths, Head(xs)) THEN paths ELSE Append(paths, Head(xs)),
                 Tail(xs))

\* [...new Set(paths)]: the first occurrence of each path, in order.
Unique(paths) == PushNew(<<>>, paths)

\* The paths the five patterns collect from the intent, before duplicates
\* are removed.
CollectedPaths(text) ==
    PushNew(PushNew(Captures(windowsPattern, text, 1)
                        \o Captures(unixPattern, text, 1)
                        \o Captures(backtickPattern, text, 1),
                    Captures(relativePattern, text, 1)),
            Captures(simpleFilePattern, text, 1))

\* ------------------------------------------------------------------ paths (POSIX)
\* path.isAbsolute
IsAbsolute(p) == p # <<>> /\ p[1] = Slash

\* The segments of a path: what stands between its slashes, empty ones too.
RECURSIVE Segments(_)
Segments(p) ==
    IF \A i \in 1..Len(p) : p[i] # Slash THEN <<p>>
    ELSE LET i == CHOOSE j \in 1..Len(p) :
                      p[j] = Slash /\ \A h \in 1..(j - 1) : p[h] # Slash
         IN  <<SubSeq(p, 1, i - 1)>> \o Segments(SubSeq(p, i + 1, Len(p)))

\* The segments of an absolute path with "" and "." dropped and ".." applied.
RECURSIVE Resolved(_, _)
Resolved(done, segs) ==
    IF segs = <<>> THEN done
    ELSE IF Head(segs) \in {<<>>, <<Dot>>} THEN Resolved(done, Tail(segs))
    ELSE IF Head(segs) = <<Dot, Dot>>
    THEN Resolved(IF done = <<>> THEN <<>> ELSE SubSeq(done, 1, Len(done) - 1), Tail(segs))
    ELSE Resolved(Append(done, Head(segs)), Tail(segs))

\* path.resolve(p) of an absolute path
ResolveAbsolute(p) == <<Slash>> \o Join(Resolved(<<>>, Segments(p)), <<Slash>>)

\* path.normalize(p) of an absolute path: as resolve, a trailing slash kept.
Normalize(p) ==
    LET r == ResolveAbsolute(p)
    IN  IF p[Len(p)] = Slash /\ Len(r) > 1 THEN r \o <<Slash>> ELSE r

\* path.resolve(root, p) of a relative path
Resolve(root, p) == ResolveAbsolute(root \o <<Slash>> \o p)

\* path.basename: the last segment that is not empty.
Basename(p) ==
    LET segs == SelectSeq(Segments(p), LAMBDA x : x # <<>>)
    IN  IF segs = <<>> THEN <<>> ELSE segs[Len(segs)]

\* path.extname(p).slice(1): what follows the last dot of the base name,
\* nothing when the name has no dot or begins with its only dot.
Extension(p) ==
    LET b == Basename(p)
        dots == {i \in 1..Len(b) : b[i] = Dot}
        d == CHOOSE i \in dots : \A j \in dots : j <= i
    IN  IF dots = {} \/ d = 1 THEN <<>> ELSE SubSeq(b, d + 1, Len(b))

\* String.prototype.trim
RECURSIVE Trim(_)
Trim(s) ==
    IF s = <<>> THEN s
    ELSE IF s[1] \in Space THEN Trim(Tail(s))
    ELSE IF s[Len(s)] \in Space THEN Trim(SubSeq(s, 1, Len(s) - 1))
    ELSE s

\* filePath.replace(/`/g, '').trim()
CleanPath(p) == Trim(SelectSeq(p, LAMBDA c : c # Backtick))

\* this.projectRoot: "/r"
ProjectRoot == <<Slash, 114>>

\* The directories findFileInProject starts from: the root and its src, lib
\* and app.
SearchPaths ==
    <<ProjectRoot,
      ProjectRoot \o <<Slash, 115, 114, 99>>,
      ProjectRoot \o <<Slash, 108, 105, 98>>,
      ProjectRoot \o <<Slash, 97, 112, 112>>>>

\* The segments of file f below directory dir, <<>> when f is not below it.
Below(dir, f) ==
    IF Len(f) > Len(dir) + 1 /\ SubSeq(f, 1, Len(dir) + 1) = dir \o <<Slash>>
    THEN Segments(SubSeq(f, Len(dir) + 2, Len(f)))
    ELSE <<>>

\* "node_modules" and ".git", the directories searchRecursive does not enter
SkippedInSearch ==
    {<<110, 111, 100, 101, 95, 109, 111, 100, 117, 108, 101, 115>>, <<Dot, 103, 105, 116>>}

\* The files of that name that searchRecursive(dir, fileName, 0, 2) can find:
\* at most two directories below dir, none of them skipped.
FoundBelow(files, dir, fileName) ==
    {f \in files :
         LET segs == Below(dir, f)
         IN  /\ Len(segs) \in 1..3
             /\ segs[Len(segs)] = fileName
             /\ \A i \in 1..(Len(segs) - 1) : segs[i] \notin SkippedInSearch}

\* The first of a set of paths in the order of their code units, taken for
\* the order in which readdirSync lists them.
FirstPath(ps) == CHOOSE p \in ps : \A q \in ps : q = p \/ StrLess(p, q)

\* findFileInProject(fileName) from the i-th search path on: <<>> for null.
RECURSIVE findFileInProject(_, _, _)
findFileInProject(files, fileName, i) ==
    IF i > Len(SearchPaths) THEN <<>>
    ELSE IF SearchPaths[i] \o <<Slash>> \o fileName \in files
    THEN <<SearchPaths[i] \o <<Slash>> \o fileName>>
    ELSE IF FoundBelow(files, SearchPaths[i], fileName) # {}
    THEN <<FirstPath(FoundBelow(files, SearchPaths[i], fileName))>>
    ELSE findFileInProject(files, fileName, i + 1)

\* processPath(filePath), the file system holding the files given.
processPath(files, filePath) ==
    LET cleanPath == CleanPath(filePath)
        resolved == IF IsAbsolute(cleanPath) THEN Normalize(cleanPath)
                    ELSE Resolve(ProjectRoot, cleanPath)
        found == IF resolved \in files THEN <<>>
                 ELSE findFileInProject(files, Basename(cleanPath), 1)
        normalizedPath == IF found # <<>> THEN found[1] ELSE resolved
    IN  [originalPath |-> cleanPath,
         normalizedPath |-> normalizedPath,
         exists |-> normalizedPath \in files,
         extension |-> Extension(normalizedPath),
         fileName |-> Basename(normalizedPath)]

\* extractFilePaths(intent); processPath raises nothing, so no path is
\* filtered out as null.
RECURSIVE ProcessEach(_, _)
ProcessEach(files, paths) ==
    IF paths = <<>> THEN <<>>
    ELSE <<processPath(files, Head(paths))>> \o ProcessEach(files, Tail(paths))

extractFilePaths(files, text) == ProcessEach(files, Unique(CollectedPaths(text)))

\* A faulty variant of PrimaryOf: absolute paths before existing files.
PrimaryAbsoluteFirst(refs) ==
    LET absoluteFiles == SelectSeq(refs, LAMBDA f : IsAbsolute(f.originalPath))
        existingFiles == SelectSeq(refs, LAMBDA f : f.exists)
    IN  IF refs = <<>> THEN <<>>
        ELSE IF absoluteFiles # <<>> THEN <<absoluteFiles[1]>>
        ELSE IF existingFiles # <<>> THEN <<existingFiles[1]>>
        ELSE <<refs[1]>>

\* What extractPrimaryFile returns for the extracted files: <<>> for null.
PrimaryOf(refs) ==
    LET existingFiles == SelectSeq(refs, LAMBDA f : f.exists)
        absoluteFiles == SelectSeq(refs, LAMBDA f : IsAbsolute(f.originalPath))
    IN  IF Len(refs) = 0 THEN <<>>
        ELSE IF Len(refs) = 1 THEN <<refs[1]>>
        ELSE IF Len(existingFiles) > 0 THEN <<existingFiles[1]>>
        ELSE IF Len(absoluteFiles) > 0 THEN <<absoluteFiles[1]>>
        ELSE <<refs[1]>>

\* The words an intent is made of: "e", "`s/a.t`", "s/a.t", "a.t" and
\* "/s/a.t".
WordE == <<101>>
WordTickedRelative == <<Backtick, 115, Slash, 97, Dot, 116, Backtick>>
WordRelative == <<115, Slash, 97, Dot, 116>>
WordSimple == <<97, Dot, 116>>
WordAbsolute == <<Slash, 115, Slash, 97, Dot, 116>>

Words == {WordE, WordTickedRelative, WordRelative, WordSimple, WordAbsolute}

\* The intents: up to MaxWords words with a blank between them.
Intents == {Join(ws, <<32>>) : ws \in UNION {[1..n -> Words] : n \in 1..MaxWords}}

\* The files there may be: "/r/s/a.t" and "/s/a.t".
SomeFiles == {ProjectRoot \o <<Slash>> \o WordRelative, WordAbsolute}

NotCalled == [called |-> FALSE, files |-> <<>>, file |-> <<>>]

\* extractFilePaths(intent), called from outside.
ExtractFilePaths ==
    /\ intent # <<>>
    /\ ~extracted.called
    /\ extracted' = [called |-> TRUE, files |-> extractFilePaths(present, intent),
                     file |-> <<>>]
    /\ UNCHANGED <<intent, present, primary, notPaths>>

\* extractPrimaryFile(intent)
extractPrimaryFile ==
    /\ intent # <<>>
    /\ ~primary.called
    /\ LET refs == extractFilePaths(present, intent)
       IN  primary' = [called |-> TRUE, files |-> refs, file |-> PrimaryOf(refs)]
    /\ UNCHANGED <<intent, present, extracted, notPaths>>

\* No intent given.
PathsIdle ==
    /\ intent = <<>>
    /\ present = {}
    /\ extracted = NotCalled
    /\ primary = NotCalled

\* ------------------------------------------------------------------ CodeContextCollector: scanDirectory
\* How many entries a directory of the tree has at most.
MaxItems == 2

\* The maxDepth analyzeProjectStructure scans with.
DepthLimit == 3

NameGit == <<46, 103, 105, 116>>
NameNodeModules == <<110, 111, 100, 101, 95, 109, 111, 100, 117, 108, 101, 115>>
NameOut == <<111, 117, 116>>
NameDist == <<100, 105, 115, 116>>

\* A faulty variant of SkippedInScan: .git is entered.
SkippedInScanWithoutGit == {NameNodeModules, NameOut, NameDist}

\* The names scanDirectory passes over.
SkippedInScan == {NameNodeModules, NameGit, NameOut, NameDist}

\* An entry of a directory: its name, whether it is a directory, whether
\* statSync of it succeeds, whether readdirSync of it succeeds, and what
\* readdirSync lists, in that order.
Entry(name, dir, statOk, readOk, items) ==
    [name |-> name, dir |-> dir, statOk |-> statOk, readOk |-> readOk, items |-> items]

\* "a.t", and "c.u" that statSync fails on (a dangling symbolic link)
FileA == Entry(<<97, 46, 116>>, FALSE, TRUE, TRUE, <<>>)
BrokenLink == Entry(<<99, 46, 117>>, FALSE, FALSE, TRUE, <<>>)

GitDir == Entry(NameGit, TRUE, TRUE, TRUE, <<FileA>>)
NodeModulesDir == Entry(NameNodeModules, TRUE, TRUE, TRUE, <<FileA>>)

\* The directory "s": empty, with a file, with a .git of its own, or
\* unreadable.
SubDirs ==
    {Entry(<<115>>, TRUE, TRUE, TRUE, items) : items \in {<<>>, <<FileA>>, <<GitDir>>}}
        \cup {Entry(<<115>>, TRUE, TRUE, FALSE, <<FileA>>)}

RootEntries == {FileA, BrokenLink, GitDir, NodeModulesDir} \cup SubDirs

\* The project roots: up to MaxItems entries of different names.
Trees ==
    {Entry(<<>>, TRUE, TRUE, TRUE, items) :
        items \in {s \in UNION {[1..n -> RootEntries] : n \in 1..MaxItems} :
                      \A i, j \in DOMAIN s : i # j => s[i].name # s[j].name}}

EmptyResult == [folders |-> <<>>, filesByType |-> <<>>, totalFiles |-> 0]

\* path.join(dir, item) made relative to the project root
Relative(dir, name) == IF dir = <<>> THEN name ELSE dir \o <<Slash>> \o name

\* Object.assign(target, source): each key of the source set in the target,
\* replacing what the target had under it.
RECURSIVE AssignTypes(_, _)
AssignTypes(target, source) ==
    IF source = <<>> THEN target
    ELSE AssignTypes(MapSet(target, Head(source).key, Head(source).entry), Tail(source))

\* result.filesByType[ext].push(path), the list created when missing
PushFile(filesByType, ext, path) ==
    MapSet(filesByType, ext,
           (IF MapHas(filesByType, ext) THEN MapGet(filesByType, ext) ELSE <<>>)
               \o <<path>>)

RECURSIVE scanDirectory(_, _, _, _)
RECURSIVE ScanItems(_, _, _, _, _)

\* scanDirectory(dir, depth, maxDepth), dir the entry e at the relative path
\* given; a readdirSync that throws leaves the empty result.
scanDirectory(e, path, depth, maxDepth) ==
    IF depth > maxDepth \/ ~e.readOk THEN EmptyResult
    ELSE ScanItems(e.items, path, depth, maxDepth, EmptyResult)

\* The for loop over the items still to visit; a statSync that throws ends
\* the loop with the result as it is.
ScanItems(items, path, depth, maxDepth, result) ==
    IF items = <<>> THEN result
    ELSE LET item == Head(items)
             rel == Relative(path, item.name)
             sub == scanDirectory(item, rel, depth + 1, maxDepth)
         IN  IF item.name \in SkippedInScan
             THEN ScanItems(Tail(items), path, depth, maxDepth, result)
             ELSE IF ~item.statOk THEN result
             ELSE IF item.dir
             THEN ScanItems(Tail(items), path, depth, maxDepth,
                            [folders |-> result.folders \o <<rel>> \o sub.folders,
                             filesByType |-> AssignTypes(result.filesByType, sub.filesByType),
                             totalFiles |-> result.totalFiles + sub.totalFiles])
             ELSE ScanItems(Tail(items), path, depth, maxDepth,
                            [folders |-> result.folders,
                             filesByType |->
                                 PushFile(result.filesByType, Extension(item.name), rel),
                             totalFiles |-> result.totalFiles + 1])

NotScanned == [called |-> FALSE, maxDepth |-> 0, result |-> EmptyResult]

\* scanDirectory(this.projectRoot, 0, maxDepth)
Scan(maxDepth) ==
    /\ tree.items # <<>>
    /\ ~structure.called
    /\ structure' = [called |-> TRUE, maxDepth |-> maxDepth,
                     result |-> scanDirectory(tree, <<>>, 0, maxDepth)]
    /\ UNCHANGED <<tree, notScan>>

\* Nothing to scan.
ScanIdle ==
    /\ tree = Entry(<<>>, TRUE, TRUE, TRUE, <<>>)
    /\ structure = NotScanned

\* ------------------------------------------------------------------ CodeContextCollector: collectContext
\* How many explicit files a plan names at most.
MaxExplicit == 2

\* The map of detectLanguage: extension and language, pair by pair.
LanguageMap ==
    <<<<<<116, 115>>, <<116, 121, 112, 101, 115, 99, 114, 105, 112, 116>>>>,
      <<<<116, 115, 120>>, <<116, 121, 112, 101, 115, 99, 114, 105, 112, 116>>>>,
      <<<<106, 115>>, <<106, 97, 118, 97, 115, 99, 114, 105, 112, 116>>>>,
      <<<<106, 115, 120>>, <<106, 97, 118, 97, 115, 99, 114, 105, 112, 116>>>>,
      <<<<112, 121>>, <<112, 121, 116, 104, 111, 110>>>>,
      <<<<106, 97, 118, 97>>, <<106, 97, 118, 97>>>>,
      <<<<99, 115>>, <<99, 115, 104, 97, 114, 112>>>>,
      <<<<99, 112, 112>>, <<99, 112, 112>>>>,
      <<<<99>>, <<99>>>>,
      <<<<103, 111>>, <<103, 111>>>>,
      <<<<114, 115>>, <<114, 117, 115, 116>>>>,
      <<<<114, 98>>, <<114, 117, 98, 121>>>>,
      <<<<112, 104, 112>>, <<112, 104, 112>>>>>>

\* map[ext] || ext
detectLanguage(ext) ==
    IF \E i \in 1..Len(LanguageMap) : LanguageMap[i][1] = ext
    THEN LanguageMap[CHOOSE i \in 1..Len(LanguageMap) : LanguageMap[i][1] = ext][2]
    ELSE ext

\* The extensions the collector parses: ts, js, tsx and jsx.
ScriptExtensions == {<<116, 115>>, <<106, 115>>, <<116, 115, 120>>, <<106, 115, 120>>}

\* What readFile gives for a file: its text, with the imports and the exports
\* the parser and the regular expressions of the collector find in it.
Content(text, imports, exports) == [text |-> text, imports |-> imports, exports |-> exports]

\* The texts files hold: "x", and "aB';" with " await " indented by two blanks
\* on a second line.
TextPlain == <<120>>
TextStyled == <<97, 66, 39, 59, 10, 32, 32, 97, 119, 97, 105, 116, 32>>

\* The content of the files there are: the file of the project holds the
\* styled text, every other the plain one; nothing imported or exported.
\* The content '' of a file to be created.
FileContent(file) ==
    IF file = ProjectRoot \o <<Slash>> \o WordRelative THEN Content(TextStyled, <<>>, <<>>)
    ELSE Content(TextPlain, <<>>, <<>>)
NoContent == Content(<<>>, <<>>, <<>>)

collectorImports(content, ext) == IF ext \in ScriptExtensions THEN content.imports ELSE <<>>
collectorExports(content, ext) == IF ext \in ScriptExtensions THEN content.exports ELSE <<>>

\* A record of relatedFiles.
FileContext(path, content, ext) ==
    [path |-> path, content |-> content.text, language |-> detectLanguage(ext),
     imports |-> collectorImports(content, ext), exports |-> collectorExports(content, ext)]

\* The segments two lists of segments do not share at their heads.
RECURSIVE Unshared(_, _)
Unshared(xs, ys) ==
    IF xs # <<>> /\ ys # <<>> /\ Head(xs) = Head(ys) THEN Unshared(Tail(xs), Tail(ys))
    ELSE <<xs, ys>>

\* path.relative(from, to) of two absolute paths
RelativePath(from, to) ==
    LET rest == Unshared(Resolved(<<>>, Segments(from)), Resolved(<<>>, Segments(to)))
    IN  Join([i \in 1..Len(rest[1]) |-> <<Dot, Dot>>] \o rest[2], <<Slash>>)

\* relativePath.startsWith('..')
StartsWithDots(p) == Len(p) >= 2 /\ p[1] = Dot /\ p[2] = Dot

\* A faulty variant of the loop over the explicit files: a file that does not
\* exist is passed over.
RECURSIVE loadExistingFiles(_, _)
loadExistingFiles(explicitFiles, unreadable) ==
    IF explicitFiles = <<>> THEN <<>>
    ELSE LET explicitFile == Head(explicitFiles)
             rel == RelativePath(ProjectRoot, explicitFile.normalizedPath)
             relativePath == IF StartsWithDots(rel) THEN explicitFile.fileName ELSE rel
         IN  (IF explicitFile.exists /\ explicitFile.normalizedPath \notin unreadable
              THEN <<FileContext(relativePath, FileContent(explicitFile.normalizedPath),
                                 explicitFile.extension)>>
              ELSE <<>>)
             \o loadExistingFiles(Tail(explicitFiles), unreadable)

\* The loop of collectContext over the explicit files: a file that exists is
\* read, and left out when the read throws; one that does not exist gets a
\* record with no content.
RECURSIVE loadExplicitFiles(_, _)
loadExplicitFiles(explicitFiles, unreadable) ==
    IF explicitFiles = <<>> THEN <<>>
    ELSE LET explicitFile == Head(explicitFiles)
             rel == RelativePath(ProjectRoot, explicitFile.normalizedPath)
             relativePath == IF StartsWithDots(rel) THEN explicitFile.fileName ELSE rel
         IN  (IF explicitFile.exists
              THEN IF explicitFile.normalizedPath \in unreadable THEN <<>>
                   ELSE <<FileContext(relativePath, FileContent(explicitFile.normalizedPath),
                                   explicitFile.extension)>>
              ELSE <<FileContext(relativePath, NoContent, explicitFile.extension)>>)
             \o loadExplicitFiles(Tail(explicitFiles), unreadable)

\* loadTargetFiles: every target file is loaded, whatever relatedFiles holds.
RECURSIVE loadTargetFiles(_, _, _)
loadTargetFiles(targetFiles, files, unreadable) ==
    IF targetFiles = <<>> THEN <<>>
    ELSE LET file == Head(targetFiles)
             fullPath == ResolveAbsolute(ProjectRoot \o <<Slash>> \o file)
         IN  (IF fullPath \in files
              THEN IF fullPath \in unreadable THEN <<>>
                   ELSE <<FileContext(file, FileContent(fullPath), Extension(file))>>
              ELSE <<FileContext(file, NoContent, Extension(file))>>)
             \o loadTargetFiles(Tail(targetFiles), files, unreadable)

\* The relatedFiles of the bundle collectContext returns.
RelatedFiles(targetFiles, explicitFiles, files, unreadable) ==
    loadExplicitFiles(explicitFiles, unreadable)
        \o loadTargetFiles(targetFiles, files, unreadable)

\* The files collectContext hands to readFile for its explicit files and
\* its target files, in the order of the calls.
RECURSIVE explicitReads(_)
explicitReads(explicitFiles) ==
    IF explicitFiles = <<>> THEN <<>>
    ELSE (IF Head(explicitFiles).exists THEN <<Head(explicitFiles).normalizedPath>> ELSE <<>>)
         \o explicitReads(Tail(explicitFiles))

RECURSIVE targetReads(_, _)
targetReads(targetFiles, files) ==
    IF targetFiles = <<>> THEN <<>>
    ELSE LET fullPath == ResolveAbsolute(ProjectRoot \o <<Slash>> \o Head(targetFiles))
         IN  (IF fullPath \in files THEN <<fullPath>> ELSE <<>>)
             \o targetReads(Tail(targetFiles), files)

\* findSimilarFiles asks for at most five files.
MaxSimilar == 5

\* "node_modules", ".git" and "out", the directories findFilesByExtensions
\* does not enter
SkippedInFind == SkippedInSearch \cup {<<111, 117, 116>>}

\* A set of paths as a list, in the order of their code units.
RECURSIVE SortedPaths(_)
SortedPaths(ps) ==
    IF ps = {} THEN <<>> ELSE <<FirstPath(ps)>> \o SortedPaths(ps \ {FirstPath(ps)})

\* findFilesByExtensions(extensions, maxFiles): the files of these extensions
\* in directories at most three below the project root, none of them skipped.
findFilesByExtensions(files, extensions, maxFiles) ==
    LET found == SortedPaths({f \in files :
                     LET segs == Below(ProjectRoot, f)
                     IN  /\ Len(segs) \in 1..4
                         /\ \A i \in 1..Len(segs) : segs[i] \notin SkippedInFind
                         /\ Extension(segs[Len(segs)]) \in extensions})
    IN  SubSeq(found, 1, IF Len(found) < maxFiles THEN Len(found) ELSE maxFiles)

\* The records findSimilarFiles pushes: a file whose read throws is left out.
RECURSIVE SimilarRecords(_, _)
SimilarRecords(similar, unreadable) ==
    IF similar = <<>> THEN <<>>
    ELSE (IF Head(similar) \in unreadable THEN <<>>
          ELSE <<FileContext(RelativePath(ProjectRoot, Head(similar)),
                             FileContent(Head(similar)), Extension(Head(similar)))>>)
         \o SimilarRecords(Tail(similar), unreadable)

\* The similarFiles of the bundle.
findSimilarFiles(targetFiles, files, unreadable) ==
    SimilarRecords(
        findFilesByExtensions(files, {Extension(targetFiles[i]) : i \in 1..Len(targetFiles)},
                              MaxSimilar),
        unreadable)

\* part occurs in text at i
OccursAt(text, part, i) ==
    i + Len(part) - 1 <= Len(text) /\ SubSeq(text, i, i + Len(part) - 1) = part

\* (text.match(/part/g) || []).length, a literal part: the matches counted
\* from left to right, each starting after the one before it.
RECURSIVE CountOf(_, _, _)
CountOf(text, part, i) ==
    IF i > Len(text) THEN 0
    ELSE IF OccursAt(text, part, i) THEN 1 + CountOf(text, part, i + Len(part))
    ELSE CountOf(text, part, i + 1)

\* text.includes(part)
HasText(text, part) == \E i \in 1..Len(text) : OccursAt(text, part, i)

IsLower(c) == c \in 97..122
IsUpper(c) == c \in 65..90

\* (text.match(/[a-z][A-Z]/g) || []).length
RECURSIVE CountCamel(_, _)
CountCamel(text, i) ==
    IF i + 1 > Len(text) THEN 0
    ELSE IF IsLower(text[i]) /\ IsUpper(text[i + 1]) THEN 1 + CountCamel(text, i + 2)
    ELSE CountCamel(text, i + 1)

\* (text.match(/[a-z]_[a-z]/g) || []).length
RECURSIVE CountSnake(_, _)
CountSnake(text, i) ==
    IF i + 2 > Len(text) THEN 0
    ELSE IF IsLower(text[i]) /\ text[i + 1] = 95 /\ IsLower(text[i + 2])
    THEN 1 + CountSnake(text, i + 3)
    ELSE CountSnake(text, i + 1)

\* The sum of the numbers of a list.
RECURSIVE Total(_)
Total(counts) == IF counts = <<>> THEN 0 ELSE Head(counts) + Total(Tail(counts))

\* 1 when the condition holds of a file with content, else 0.
Vote(file, condition) == IF file.content # <<>> /\ condition THEN 1 ELSE 0

\* context.codePatterns as collectContext initialises it
DefaultPatterns ==
    [namingConvention |-> "camelCase", indentation |-> "spaces", indentSize |-> 2,
     quotes |-> "single", semicolons |-> TRUE, asyncStyle |-> "async/await"]

\* detectCodePatterns: context.codePatterns after it.  In the loop a file
\* without content is passed over; semicolons > lines * 0.3 is compared in
\* tenths.
detectCodePatterns(allFiles) ==
    LET Each(Count(_)) == Total([i \in 1..Len(allFiles) |-> Count(allFiles[i])])
        totalSpaces == Each(LAMBDA f : CountOf(f.content, <<10, 32, 32>>, 1))
        totalTabs == Each(LAMBDA f : CountOf(f.content, <<10, 9>>, 1))
        totalSingle == Each(LAMBDA f : CountOf(f.content, <<39>>, 1))
        totalDouble == Each(LAMBDA f : CountOf(f.content, <<34>>, 1))
        Semicolons(f) == 10 * CountOf(f.content, <<59>>, 1)
                             > 3 * (CountOf(f.content, <<10>>, 1) + 1)
        totalSemicolons == Each(LAMBDA f : Vote(f, Semicolons(f)))
        totalNoSemicolons == Each(LAMBDA f : Vote(f, ~Semicolons(f)))
        totalAsync == Each(LAMBDA f :
                          Vote(f, HasText(f.content, <<97, 115, 121, 110, 99, 32>>)
                                      \/ HasText(f.content, <<97, 119, 97, 105, 116, 32>>)))
        totalPromises == Each(LAMBDA f :
                          Vote(f, HasText(f.content, <<46, 116, 104, 101, 110, 40>>)
                                      \/ HasText(f.content, <<46, 99, 97, 116, 99, 104, 40>>)))
        camelCaseCount == Each(LAMBDA f : CountCamel(f.content, 1))
        snake_caseCount == Each(LAMBDA f : CountSnake(f.content, 1))
    IN  IF Len(allFiles) = 0 THEN DefaultPatterns
        ELSE [namingConvention |->
                  IF camelCaseCount > snake_caseCount THEN "camelCase" ELSE "snake_case",
              indentation |-> IF totalSpaces > totalTabs THEN "spaces" ELSE "tabs",
              indentSize |-> 2,
              quotes |-> IF totalSingle > totalDouble THEN "single" ELSE "double",
              semicolons |-> totalSemicolons > totalNoSemicolons,
              asyncStyle |-> IF totalAsync > totalPromises THEN "async/await" ELSE "promises"]

\* processIntent: the target files it hands to collectContext.
TargetsOfPlan(p) ==
    IF Len(p.explicitFiles) > 0
    THEN [i \in 1..Len(p.explicitFiles) |->
              LET relativePath == RelativePath(ProjectRoot, p.explicitFiles[i].normalizedPath)
              IN  IF StartsWithDots(relativePath) THEN p.explicitFiles[i].normalizedPath
                  ELSE relativePath]
    ELSE p.stepFiles

NotCollected ==
    [called |-> FALSE, targetFiles |-> <<>>, relatedFiles |-> <<>>, reads |-> <<>>,
     similarFiles |-> <<>>, codePatterns |-> DefaultPatterns]

\* collectContext(intent, targetFiles, explicitFiles) with the explicit files
\* of the plan.
collectContext(targetFiles) ==
    /\ plan.planned
    /\ ~collected.called
    /\ LET relatedFiles == RelatedFiles(targetFiles, plan.explicitFiles, present, locked)
           similarFiles == findSimilarFiles(targetFiles, present, locked)
       IN  collected' = [called |-> TRUE, targetFiles |-> targetFiles,
                         relatedFiles |-> relatedFiles,
                         reads |-> explicitReads(plan.explicitFiles)
                                       \o targetReads(targetFiles, present),
                         similarFiles |-> similarFiles,
                         codePatterns |-> detectCodePatterns(relatedFiles \o similarFiles)]
    /\ UNCHANGED <<plan, locked, pathVars, notCollect>>

\* processIntent, up to the bundle collectContext returns to it.
processIntent == collectContext(TargetsOfPlan(plan))

\* No plan made.
CollectIdle ==
    /\ plan = [planned |-> FALSE, stepFiles |-> <<>>, explicitFiles |-> <<>>]
    /\ locked = {}
    /\ collected = NotCollected

\* ------------------------------------------------------------------ ContextCache: calls that interleave
\* A call of getCachedContext waits in `await this.checkFilesChanged(...)`
\* holding the key and the entry it read; a call of setCachedContext waits in
\* `await this.computeFilesHash(files)` before it touches the cache.  The
\* files are read by the time the call goes on.
NoneSuspended == [get |-> <<>>, set |-> <<>>]

\* getCachedContext(files), up to its await: a miss and an expired entry are
\* dealt with at once.
getCachedContextStart(files) ==
    LET key == generateKey(files)
        absent == ~MapHas(cache, key)
        expired == ~absent /\ getExpired(MapGet(cache, key))
    IN /\ suspended.get = <<>>
       /\ stats.hits + stats.misses < MaxGets
       /\ cache' = IF expired THEN MapDelete(cache, key) ELSE cache
       /\ stats' = IF absent \/ expired THEN [stats EXCEPT !.misses = @ + 1] ELSE stats
       /\ suspended' = IF absent \/ expired THEN suspended
                       ELSE [suspended EXCEPT
                                !.get = <<[files |-> files, key |-> key,
                                           entry |-> MapGet(cache, key)]>>]
       /\ last' = IF absent \/ expired
                  THEN Call("get", files, <<>>, <<>>, 0, FALSE,
                            IF absent THEN -1 ELSE now - MapGet(cache, key).timestamp)
                  ELSE last
       /\ UNCHANGED <<now, fs, disk, exported, notAsync>>

\* getCachedContext after its await: the entry of the key is deleted when the
\* files of the entry read before have changed.
getCachedContextResume ==
    /\ suspended.get # <<>>
    /\ LET call == suspended.get[1]
           filesChanged == checkFilesChanged(call.entry.files, call.entry.hash)
       IN  /\ cache' = IF filesChanged THEN MapDelete(cache, call.key) ELSE cache
           /\ stats' = IF filesChanged THEN [stats EXCEPT !.misses = @ + 1]
                       ELSE [stats EXCEPT !.hits = @ + 1]
           /\ last' = Call("get", call.files, <<>>,
                           IF filesChanged THEN <<>> ELSE <<call.entry.context>>, 0, FALSE,
                           now - call.entry.timestamp)
    /\ suspended' = [suspended EXCEPT !.get = <<>>]
    /\ UNCHANGED <<now, fs, disk, exported, notAsync>>

\* setCachedContext(files, context), up to its await.
setCachedContextStart(files, context) ==
    /\ suspended.set = <<>>
    /\ suspended' = [suspended EXCEPT !.set = <<[files |-> files, context |-> context]>>]
    /\ UNCHANGED <<cacheVars, notAsync>>

\* setCachedContext after its await: the entry is made and stored.
setCachedContextResume ==
    /\ suspended.set # <<>>
    /\ LET call == suspended.set[1]
           key == generateKey(call.files)
           entry == [context |-> call.context, timestamp |-> now,
                     hash |-> computeFilesHash(call.files), files |-> call.files]
           room == IF Len(cache) >= MaxSize THEN evictOldest(cache) ELSE cache
           stored == MapSet(room, key, entry)
       IN  /\ cache' = stored
           /\ stats' = RefreshStats(stats, stored)
           /\ last' = Call("set", call.files, <<call.context>>, <<>>, 0, FALSE, -1)
    /\ suspended' = [suspended EXCEPT !.set = <<>>]
    /\ UNCHANGED <<now, fs, disk, exported, notAsync>>

\* No call waits.
AsyncIdle == suspended = NoneSuspended

\* ------------------------------------------------------------------ Calculator
\* The finite numbers the calculator is given: the integers from -MaxNumber
\* to MaxNumber.
MaxNumber == 2

\* A JavaScript value: what typeof says of it, and for a number whether it is
\* finite, NaN, Infinity or -Infinity, and num / den when it is finite.
Value(type, kind, num, den) == [type |-> type, kind |-> kind, num |-> num, den |-> den]
Finite(num, den) == Value("number", "finite", num, den)
NaN == Value("number", "NaN", 0, 1)
Infinity == Value("number", "Infinity", 0, 1)
MinusInfinity == Value("number", "-Infinity", 0, 1)
StringFive == Value("string", "5", 0, 1)
Null == Value("object", "null", 0, 1)
Undefined == Value("undefined", "undefined", 0, 1)

Arguments ==
    {Finite(n, 1) : n \in (-MaxNumber)..MaxNumber}
        \cup {NaN, Infinity, MinusInfinity, StringFive, Null, Undefined}

\* typeof v === 'number', and isFinite(v) of a number
IsNumber(v) == v.type = "number"
isFinite(v) == v.kind = "finite"

Abs(n) == IF n < 0 THEN -n ELSE n

RECURSIVE Gcd(_, _)
Gcd(m, n) == IF n = 0 THEN m ELSE Gcd(n, m % n)

\* a / b of two finite numbers, b not 0: the fraction in lowest terms.
Quotient(a, b) ==
    LET num == a.num * b.den
        den == a.den * b.num
        g == Gcd(Abs(num), Abs(den))
        sign == IF den < 0 THEN -1 ELSE 1
    IN  Finite(sign * (num \div g), sign * (den \div g))

Thrown(message) == [threw |-> TRUE, message |-> message, value |-> Undefined]
Returned(value) == [threw |-> FALSE, message |-> "", value |-> value]

add(a, b) ==
    IF ~IsNumber(a) \/ ~IsNumber(b) THEN Thrown("Both arguments must be numbers")
    ELSE IF ~isFinite(a) \/ ~isFinite(b) THEN Thrown("Arguments must be finite numbers")
    ELSE Returned(Finite(a.num + b.num, 1))

subtract(a, b) ==
    IF ~IsNumber(a) \/ ~IsNumber(b) THEN Thrown("Both arguments must be numbers")
    ELSE IF ~isFinite(a) \/ ~isFinite(b) THEN Thrown("Arguments must be finite numbers")
    ELSE Returned(Finite(a.num - b.num, 1))

multiply(a, b) ==
    IF ~IsNumber(a) \/ ~IsNumber(b) THEN Thrown("Both arguments must be numbers")
    ELSE IF ~isFinite(a) \/ ~isFinite(b) THEN Thrown("Arguments must be finite numbers")
    ELSE Returned(Finite(a.num * b.num, 1))

\* A faulty variant of divide: the divisor is looked at before the arguments
\* are known to be finite.
divideZeroFirst(a, b) ==
    IF ~IsNumber(a) \/ ~IsNumber(b) THEN Thrown("Both arguments must be numbers")
    ELSE IF b.kind = "finite" /\ b.num = 0 THEN Thrown("Cannot divide by zero")
    ELSE IF ~isFinite(a) \/ ~isFinite(b) THEN Thrown("Arguments must be finite numbers")
    ELSE Returned(Quotient(a, b))

divide(a, b) ==
    IF ~IsNumber(a) \/ ~IsNumber(b) THEN Thrown("Both arguments must be numbers")
    ELSE IF ~isFinite(a) \/ ~isFinite(b) THEN Thrown("Arguments must be finite numbers")
    ELSE IF b.num = 0 THEN Thrown("Cannot divide by zero")
    ELSE Returned(Quotient(a, b))

NoCalculation == [op |-> "", a |-> Undefined, b |-> Undefined, outcome |-> Returned(Undefined)]

\* calculator.add(a, b), and so on, called with any two values
Add ==
    /\ \E a, b \in Arguments : calc' = [op |-> "add", a |-> a, b |-> b, outcome |-> add(a, b)]
    /\ UNCHANGED notCalc

Subtract ==
    /\ \E a, b \in Arguments :
           calc' = [op |-> "subtract", a |-> a, b |-> b, outcome |-> subtract(a, b)]
    /\ UNCHANGED notCalc

Multiply ==
    /\ \E a, b \in Arguments :
           calc' = [op |-> "multiply", a |-> a, b |-> b, outcome |-> multiply(a, b)]
    /\ UNCHANGED notCalc

Divide ==
    /\ \E a, b \in Arguments :
           calc' = [op |-> "divide", a |-> a, b |-> b, outcome |-> divide(a, b)]
    /\ UNCHANGED notCalc

\* No call made.
CalcIdle == calc = NoCalculation

\* ------------------------------------------------------------------ specifications
\* A file as first written: modification time 1, three code units, four bytes.
FreshFile == File(TRUE, TRUE, 1, 3, 4)

\* The cache as its constructor leaves it.
CacheInit ==
    /\ cache = <<>>
    /\ stats = StatsObject(0, 0, 0, 0)
    /\ now = 0
    /\ fs = [p \in Paths |-> FreshFile]
    /\ disk = NoSnapshot
    /\ exported = [cache |-> <<>>, stats |-> StatsUndefined]
    /\ last = NoCall

Init ==
    /\ CacheInit
    /\ DiffIdle
    /\ PathsIdle
    /\ ScanIdle
    /\ CollectIdle
    /\ CalcIdle
    /\ AsyncIdle

\* getCachedContext, while the bound on the counters allows it.
Get(files) ==
    /\ stats.hits + stats.misses < MaxGets
    /\ getCachedContext(files)

\* Spec: the life of the entries.  Three keys, one bundle, files untouched.
FileLists == {<<PathA>>, <<PathB>>, <<PathA, PathB>>, <<PathB, PathA>>, <<PathAB>>}

Next ==
    \/ \E files \in FileLists : Get(files)
    \/ \E files \in FileLists : setCachedContext(files, Bundle1)
    \/ \E files \in FileLists : invalidateCache(files)
    \/ clearCache
    \/ cleanupExpired
    \/ Tick

Spec == Init /\ [][Next]_vars

\* SpecHit: what a get returns.  One file set in both orders, two bundles, and
\* edits of a file.
HitLists == {<<PathA, PathB>>, <<PathB, PathA>>}

NextHit ==
    \/ \E files \in HitLists : Get(files)
    \/ \E files \in HitLists, context \in Bundles : setCachedContext(files, context)
    \/ ChangeFile(PathA, "mtime")
    \/ Tick

SpecHit == Init /\ [][NextHit]_vars

\* SpecStale: staleness.  Edits of each attribute of a file between set and get.
StaleLists == {<<PathA>>, <<PathB, PathA>>}

NextStale ==
    \/ \E files \in StaleLists : Get(files)
    \/ \E files \in StaleLists : setCachedContext(files, Bundle1)
    \/ \E attr \in {"mtime", "length", "size"} : ChangeFile(PathA, attr)
    \/ ChmodFile(PathA)

SpecStale == Init /\ [][NextStale]_vars

\* SpecExport: snapshots written by exportCache and read back.
ExportLists == {<<PathA>>, <<PathB>>}

NextExport ==
    \/ \E files \in ExportLists : Get(files)
    \/ \E files \in ExportLists, context \in Bundles : setCachedContext(files, context)
    \/ clearCache
    \/ exportCache
    \/ importCache

SpecExport == Init /\ [][NextExport]_vars

\* SpecCounters: every operation, on snapshots exportCache wrote.
NextCounters ==
    \/ \E files \in ExportLists : Get(files)
    \/ \E files \in ExportLists : setCachedContext(files, Bundle1)
    \/ \E files \in ExportLists : invalidateCache(files)
    \/ clearCache
    \/ cleanupExpired
    \/ exportCache
    \/ importCache
    \/ Tick

SpecCounters == Init /\ [][NextCounters]_vars

\* SpecSnapshot: snapshots edited between the export and the import.
NextSnapshot ==
    \/ \E files \in ExportLists : Get(files)
    \/ \E files \in ExportLists : setCachedContext(files, Bundle1)
    \/ clearCache
    \/ exportCache
    \/ importCache
    \/ \E how \in Damages : DamageSnapshot(how)

SpecSnapshot == Init /\ [][NextSnapshot]_vars

\* SpecDiff: analyzeDiff of every pair of texts of at most MaxLines lines.
InitDiff ==
    /\ CacheInit
    /\ original \in Texts
    /\ modified \in Texts
    /\ oldIndex = 0
    /\ newIndex = 0
    /\ hunks = <<>>
    /\ currentHunk = 0
    /\ iterations = 0
    /\ analysis = <<>>
    /\ PathsIdle
    /\ ScanIdle
    /\ CollectIdle
    /\ CalcIdle
    /\ AsyncIdle

NextDiff ==
    \/ computeDiffStep
    \/ analyzeDiff

SpecDiff == InitDiff /\ [][NextDiff]_vars

\* SpecHunks: the loop of computeDiff on texts long enough for a hunk to be
\* closed and another opened: up to MaxHunkLines lines, each "function foo()
\* {}" or empty.
MaxHunkLines == 6

HunkTexts == UNION {[1..n -> {LineFoo, LineEmpty}] : n \in 1..MaxHunkLines}

InitHunks ==
    /\ CacheInit
    /\ original \in HunkTexts
    /\ modified \in HunkTexts
    /\ oldIndex = 0
    /\ newIndex = 0
    /\ hunks = <<>>
    /\ currentHunk = 0
    /\ iterations = 0
    /\ analysis = <<>>
    /\ PathsIdle
    /\ ScanIdle
    /\ CollectIdle
    /\ CalcIdle
    /\ AsyncIdle

NextHunks == computeDiffStep

SpecHunks == InitHunks /\ [][NextHunks]_vars

\* SpecPaths: the extractor on every intent of at most MaxWords words, with
\* every choice of the files that exist.
InitPaths ==
    /\ CacheInit
    /\ DiffIdle
    /\ intent \in Intents
    /\ present \in SUBSET SomeFiles
    /\ extracted = NotCalled
    /\ primary = NotCalled
    /\ ScanIdle
    /\ CollectIdle
    /\ CalcIdle
    /\ AsyncIdle

NextPaths ==
    \/ ExtractFilePaths
    \/ extractPrimaryFile

SpecPaths == InitPaths /\ [][NextPaths]_vars

\* SpecScan: scanDirectory of every tree, to every depth up to the limit.
InitScan ==
    /\ CacheInit
    /\ DiffIdle
    /\ PathsIdle
    /\ tree \in Trees
    /\ structure = NotScanned
    /\ CollectIdle
    /\ CalcIdle
    /\ AsyncIdle

NextScan == \E maxDepth \in 0..DepthLimit : Scan(maxDepth)

SpecScan == InitScan /\ [][NextScan]_vars

\* SpecCollect: collectContext for every plan of up to MaxExplicit explicit
\* files, as processIntent calls it and with target files of its own.
ExplicitPaths == {WordRelative, WordAbsolute, WordSimple}

ExplicitLists ==
    {s \in UNION {[1..n -> ExplicitPaths] : n \in 0..MaxExplicit} :
        \A i, j \in DOMAIN s : i # j => s[i] # s[j]}

TargetLists == {<<>>, <<WordRelative>>, <<WordSimple>>}

InitCollect ==
    /\ CacheInit
    /\ DiffIdle
    /\ ScanIdle
    /\ intent = <<>>
    /\ extracted = NotCalled
    /\ primary = NotCalled
    /\ present \in SUBSET SomeFiles
    /\ locked \in SUBSET present
    /\ \E paths \in ExplicitLists, steps \in {<<>>, <<WordRelative>>} :
           plan = [planned |-> TRUE, stepFiles |-> steps,
                   explicitFiles |-> ProcessEach(present, paths)]
    /\ collected = NotCollected
    /\ CalcIdle
    /\ AsyncIdle

NextCollect ==
    \/ processIntent
    \/ \E targetFiles \in TargetLists : collectContext(targetFiles)

SpecCollect == InitCollect /\ [][NextCollect]_vars

\* SpecCalc: the four operations of the calculator, on any two values.
NextCalc ==
    \/ Add
    \/ Subtract
    \/ Multiply
    \/ Divide

SpecCalc == Init /\ [][NextCalc]_vars

\* SpecAsync: a get and a set of one file list that interleave at their
\* awaits, with edits of the file and the clock between them.
AsyncLists == {<<PathA>>}

NextAsync ==
    \/ \E files \in AsyncLists : getCachedContextStart(files)
    \/ getCachedContextResume
    \/ \E files \in AsyncLists, context \in Bundles : setCachedContextStart(files, context)
    \/ setCachedContextResume
    \/ ChangeFile(PathA, "mtime")
    \/ Tick

SpecAsync == Init /\ [][NextAsync]_vars

\* ------------------------------------------------------------------ claims
\* The step is a call of op: the clock is the one thing only Tick changes, and
\* every other action records itself in last.
IsCall(op) == last'.op = op /\ now' = now

FileSet(files) == {files[i] : i \in 1..Len(files)}

\* m without its i-th pair.
Without(m, i) == SubSeq(m, 1, i - 1) \o SubSeq(m, i + 1, Len(m))

\* C1: setCachedContext(S, B) followed by getCachedContext(S), no file edited
\* in between and the entry younger than maxAge, returns B, adds one to hits
\* and leaves misses alone.
C1_SetThenGetHits ==
    (last.op = "get" /\ last.follows /\ last.edit = "none"
        /\ last.age >= 0 /\ last.age < MaxAge)
    => /\ last.result = last.context
       /\ stats.hits = last.hits + 1
       /\ stats.misses = last.misses

C1_Witness ==
    /\ last.op = "get" /\ last.follows /\ last.edit = "none"
    /\ last.age >= 0 /\ last.age < MaxAge
    /\ last.result = <<Bundle2>>
    /\ last.files = <<PathB, PathA>>

C3_OrderIndependent ==
    \A s1 \in HitLists, s2 \in HitLists :
        FileSet(s1) = FileSet(s2) /\ Len(s1) = Len(s2) => Lookup(s1) = Lookup(s2)

C3_Witness ==
    /\ last.op = "get"
    /\ last.result # <<>>
    /\ MapHas(cache, generateKey(last.files))
    /\ MapGet(cache, generateKey(last.files)).files # last.files

C5_EvictsTheOldest ==
    [][(IsCall("set") /\ Len(cache) >= MaxSize)
        => LET key == generateKey(last'.files)
           IN \E i \in 1..Len(cache) :
                /\ \A j \in 1..Len(cache) :
                       cache[i].entry.timestamp <= cache[j].entry.timestamp
                /\ MapDelete(cache', key) = MapDelete(Without(cache, i), key)]_vars

\* C6: importCache of a snapshot that is missing, not JSON, or JSON without a
\* well-formed entry list or stats record does not raise, and leaves the map
\* and the stats as they were or as those of an empty cache.
Malformed ==
    \/ disk.kind # "object"
    \/ disk.entriesKind # "array"
    \/ disk.stats.kind # "object"

C6_BadImportIsHarmless ==
    [][(IsCall("import") /\ Malformed)
        => /\ ~last'.raised
           /\ \/ cache' = cache /\ stats' = stats
              \/ /\ cache' = <<>>
                 /\ stats'.kind = "object"
                 /\ stats'.entries = 0
                 /\ stats'.size = 0]_vars

C8_CleanupRemovesTheExpired ==
    [][IsCall("cleanup")
        => /\ \A i \in 1..Len(cache) :
                (now - cache[i].entry.timestamp > MaxAge)
                    <=> ~(\E j \in 1..Len(cache') : cache'[j] = cache[i])
           /\ \A j \in 1..Len(cache') : \E i \in 1..Len(cache) : cache[i] = cache'[j]
           /\ \A j \in 1..Len(cache'), k \in 1..Len(cache') :
                j < k => MapIndex(cache, cache'[j].key) < MapIndex(cache, cache'[k].key)
           /\ last'.removed = Len(cache) - Len(cache')]_vars

C8_Witness ==
    /\ last.op = "cleanup"
    /\ last.removed = 1
    /\ Len(cache) = 1
    /\ now - cache[1].entry.timestamp = MaxAge

\* C9: invalidateCache(S) removes the entry of S, so that the next get of S
\* misses; it leaves the entries of every other file set and the counters as
\* they are, and changes nothing when S has no entry.
C9_InvalidateFrame ==
    [][IsCall("invalidate")
        => LET files == last'.files
               mine(i) == FileSet(cache[i].entry.files) = FileSet(files)
           IN /\ ~MapHas(cache', generateKey(files))
              /\ \A i \in 1..Len(cache) :
                    ~mine(i) => \E j \in 1..Len(cache') : cache'[j] = cache[i]
              /\ stats'.hits = stats.hits /\ stats'.misses = stats.misses
              /\ (~\E i \in 1..Len(cache) : mine(i))
                    => cache' = cache /\ stats' = stats]_vars

Places(ls, type) == {k \in 1..Len(ls) : ls[k].type = type}

\* The number of lines of that type, line number and content among ls.
Emitted(ls, type, i, content) ==
    Cardinality({k \in Places(ls, type) : ls[k].lineNumber = i /\ ls[k].content = content})

\* original[i] and modified[i] both exist and differ.
Differ(i) == i <= Len(original) /\ i <= Len(modified) /\ original[i] # modified[i]

NoChanges == <<78, 111, 32, 99, 104, 97, 110, 103, 101, 115>>

\* analyzeDiff has returned, and was given the same text twice.
SameText == analysis # <<>> /\ original = modified

\* The analysis reports nothing but the summary.
NothingReported(a) ==
    /\ a.hunks = <<>>
    /\ a.stats = [additions |-> 0, deletions |-> 0, modifications |-> 0]
    /\ a.semanticChanges = <<>>
    /\ a.breakingChanges = <<>>

Reports(a, type, name) ==
    {i \in 1..Len(a.breakingChanges) :
         /\ a.breakingChanges[i].type = type
         /\ a.breakingChanges[i].description[2] = name}

\* C13: every function name that has a captured parameter list in both texts,
\* the two lists different, is reported as a signature-change, whatever the
\* two lists are, one of them empty included.
C13_EverySignatureChange ==
    analysis # <<>> =>
        LET o == extractFunctionSignatures(original)
            m == extractFunctionSignatures(modified)
        IN  \A name \in MapKeys(o) \cap MapKeys(m) :
                MapGet(o, name) # MapGet(m, name)
                    => Reports(analysis[1], "signature-change", name) # {}

\* The names in a list of names.
NameSet(xs) == {xs[i] : i \in 1..Len(xs)}

\* C14: every name exported by the original text and not by the modified one
\* is reported by exactly one removal, and a name still exported by none.
C14_ExactlyOneRemoval ==
    analysis # <<>> =>
        \A name \in NameSet(extractExports(original)) :
            Cardinality(Reports(analysis[1], "removal", name))
                = (IF name \in NameSet(extractExports(modified)) THEN 0 ELSE 1)

\* The semantic changes of that type and name have that impact, and there is
\* one exactly when the name is among xs and not among ys.
SetDifference(a, type, impact, xs, ys) ==
    LET S == a.semanticChanges
    IN  /\ \A name \in NameSet(xs) \ NameSet(ys) :
               \E i \in 1..Len(S) : S[i].type = type /\ S[i].name = name
        /\ \A i \in 1..Len(S) :
               S[i].type = type
                   => S[i].impact = impact /\ S[i].name \in NameSet(xs) \ NameSet(ys)

\* C15: the semantic changes are the set differences of the extracted names:
\* function-added (medium) for the functions of the modified text only,
\* function-removed (high) for those of the original only, import-added (low)
\* and import-removed (medium) likewise for the module specifiers; nothing else
\* is reported, so never a name that both texts have.
C15_SetDifference ==
    analysis # <<>> =>
        LET a == analysis[1]
            of == extractFunctions(original)
            mf == extractFunctions(modified)
            oi == extractImports(original)
            mi == extractImports(modified)
        IN  /\ SetDifference(a, "function-added", "medium", mf, of)
            /\ SetDifference(a, "function-removed", "high", of, mf)
            /\ SetDifference(a, "import-added", "low", mi, oi)
            /\ SetDifference(a, "import-removed", "medium", oi, mi)
            /\ \A i \in 1..Len(a.semanticChanges) :
                   a.semanticChanges[i].type \in
                       {"function-added", "function-removed", "import-added", "import-removed"}

\* An analysis that reports a removed function and an added import, of texts
\* that both import or both declare something else.
C15_Witness ==
    /\ analysis # <<>>
    /\ \E i, j \in 1..Len(analysis[1].semanticChanges) :
           /\ analysis[1].semanticChanges[i].type = "function-removed"
           /\ analysis[1].semanticChanges[j].type = "import-added"

\* ------------------------------------------------------------------ claims: FilePathExtractor
\* The intents that mention one relative path with a slash, in backticks,
\* among plain words.
TickedMentions ==
    {Join(ws, <<32>>) :
        ws \in {w \in UNION {[1..n -> {WordE, WordTickedRelative}] : n \in 1..MaxWords} :
                   Cardinality({i \in DOMAIN w : w[i] = WordTickedRelative}) = 1}}

\* C16: extractFilePaths of a text that mentions one relative path with a
\* slash, in backticks, returns exactly one reference, the path without its
\* backticks; no other pattern adds a second reference for the mention.
C16_OneReference ==
    extracted.called /\ intent \in TickedMentions =>
        /\ Len(extracted.files) = 1
        /\ extracted.files[1].originalPath = WordRelative

\* The first of the references that has the property.
FirstWith(refs, Has(_)) ==
    refs[CHOOSE i \in 1..Len(refs) : Has(refs[i]) /\ \A j \in 1..(i - 1) : ~Has(refs[j])]

RefExists(f) == f.exists
RefAbsolute(f) == IsAbsolute(f.originalPath)

RECURSIVE Expected(_, _, _, _)
Expected(e, path, depth, maxDepth) ==
    IF depth > maxDepth \/ ~e.readOk THEN {}
    ELSE UNION {LET item == e.items[i]
                    rel == Relative(path, item.name)
                IN  IF item.name \in SkippedInScan \/ ~item.statOk THEN {}
                    ELSE {[path |-> rel, dir |-> item.dir]}
                             \cup (IF item.dir
                                   THEN Expected(item, rel, depth + 1, maxDepth)
                                   ELSE {}) :
                i \in 1..Len(e.items)}

\* The paths the extension map lists under the extension of path p.
ListedAs(filesByType, p) ==
    IF MapHas(filesByType, Extension(p)) THEN NameSet(MapGet(filesByType, Extension(p)))
    ELSE {}

\* readdirSync or statSync fails somewhere in the tree.
RECURSIVE HasError(_)
HasError(e) ==
    ~e.statOk \/ ~e.readOk \/ \E i \in 1..Len(e.items) : HasError(e.items[i])

\* C18: in a scan of a tree where readdirSync or statSync fails somewhere,
\* the error skips only the directory or the entry it happens on: every other
\* entry within the depth is in the folder list or in the extension map, and
\* counted in the total.
C18_ErrorsSkipOnlyTheirEntry ==
    structure.called /\ HasError(tree) =>
        LET r == structure.result
            expected == Expected(tree, <<>>, 0, structure.maxDepth)
        IN  /\ \A x \in expected :
                   IF x.dir THEN Includes(r.folders, x.path)
                   ELSE x.path \in ListedAs(r.filesByType, x.path)
            /\ r.totalFiles = Cardinality({x \in expected : ~x.dir})

\* The paths of the files of the tree that lie under no directory named
\* .git or node_modules.
RECURSIVE FilesOutside(_, _)
FilesOutside(e, path) ==
    UNION {LET item == e.items[i]
               rel == Relative(path, item.name)
           IN  IF ~item.dir THEN {rel}
               ELSE IF item.name \in {NameGit, NameNodeModules} THEN {}
               ELSE FilesOutside(item, rel) :
           i \in 1..Len(e.items)}

\* The path lies under a directory named .git or node_modules.
UnderSkipped(p) ==
    \E i \in 1..(Len(Segments(p)) - 1) : Segments(p)[i] \in {NameGit, NameNodeModules}

\* C19: whatever the depth, nothing that lies under a directory named .git or
\* node_modules is in the folder list, in the extension map or in the total
\* file count.
C19_NeverUnderGitOrNodeModules ==
    structure.called =>
        LET r == structure.result
        IN  /\ \A i \in 1..Len(r.folders) : ~UnderSkipped(r.folders[i])
            /\ \A i \in 1..Len(r.filesByType) :
                   \A p \in NameSet(r.filesByType[i].entry) : ~UnderSkipped(p)
            /\ r.totalFiles <= Cardinality(FilesOutside(tree, <<>>))

\* A scan to depth 2 or more of a root that holds a .git and a directory
\* with a .git of its own.
C19_Witness ==
    /\ structure.called
    /\ structure.maxDepth >= 2
    /\ \E i, j \in 1..Len(tree.items) :
           /\ tree.items[i] = GitDir
           /\ tree.items[j].items = <<GitDir>>
    /\ structure.result.folders # <<>>

\* ------------------------------------------------------------------ claims: collectContext
\* The file a target file names: itself when absolute, else the one of that
\* path below the project root.
TargetFile(file) == IF IsAbsolute(file) THEN Normalize(file) ELSE Resolve(ProjectRoot, file)

\* The path collectContext records an explicit file under.
ExplicitPath(f) ==
    LET rel == RelativePath(ProjectRoot, f.normalizedPath)
    IN  IF StartsWithDots(rel) THEN f.fileName ELSE rel

\* C20: when a target file and an explicit file name the same file, the file
\* is loaded once: relatedFiles holds exactly one record for it.
C20_LoadedOnce ==
    collected.called =>
        \A i \in 1..Len(plan.explicitFiles), j \in 1..Len(collected.targetFiles) :
            LET f == plan.explicitFiles[i]
                file == collected.targetFiles[j]
            IN  TargetFile(file) = f.normalizedPath =>
                    Cardinality({k \in 1..Len(collected.relatedFiles) :
                                     collected.relatedFiles[k].path \in {ExplicitPath(f), file}})
                        = 1

\* C21: an explicit file that does not exist has a record in relatedFiles, with
\* no content, nothing imported and nothing exported, and collectContext does
\* not hand the file to readFile.
C21_MissingExplicitKept ==
    collected.called =>
        \A i \in 1..Len(plan.explicitFiles) :
            LET f == plan.explicitFiles[i]
            IN  ~f.exists =>
                    /\ \E k \in 1..Len(collected.relatedFiles) :
                           collected.relatedFiles[k] =
                               [path |-> ExplicitPath(f), content |-> <<>>,
                                language |-> detectLanguage(f.extension),
                                imports |-> <<>>, exports |-> <<>>]
                    /\ ~Includes(collected.reads, f.normalizedPath)

\* collectContext has run with no target files for a plan that names a file
\* that does not exist and a file that does.
C21_Witness ==
    /\ collected.called
    /\ collected.targetFiles = <<>>
    /\ \E i, j \in 1..Len(plan.explicitFiles) :
           ~plan.explicitFiles[i].exists /\ plan.explicitFiles[j].exists

\* C30: when no related and no similar file has content, the style profile is
\* the one collectContext starts from.
C30_NoContentKeepsDefaults ==
    (/\ collected.called
     /\ \A k \in 1..Len(collected.relatedFiles) : collected.relatedFiles[k].content = <<>>
     /\ \A k \in 1..Len(collected.similarFiles) : collected.similarFiles[k].content = <<>>)
        => collected.codePatterns = DefaultPatterns

\* ------------------------------------------------------------------ claims: Calculator
\* C22: every operation throws 'Both arguments must be numbers' when an
\* argument is not a number, otherwise 'Arguments must be finite numbers' when
\* one is not finite; divide throws 'Cannot divide by zero' exactly when both
\* are finite numbers and the divisor is 0; a call that throws returns nothing.
C22_ValidationOrder ==
    calc.op # "" =>
        LET numbers == IsNumber(calc.a) /\ IsNumber(calc.b)
            finite == calc.a.kind = "finite" /\ calc.b.kind = "finite"
            byZero == calc.op = "divide" /\ numbers /\ finite /\ calc.b.num = 0
        IN  /\ ~numbers <=> calc.outcome.message = "Both arguments must be numbers"
            /\ (numbers /\ ~finite) <=>
                   calc.outcome.message = "Arguments must be finite numbers"
            /\ byZero <=> calc.outcome.message = "Cannot divide by zero"
            /\ calc.outcome.threw <=> (~numbers \/ ~finite \/ byZero)
            /\ calc.outcome.threw => calc.outcome.value = Undefined
            /\ ~calc.outcome.threw => calc.outcome.message = ""

\* divide was called with NaN and 0.
C22_Witness ==
    /\ calc.op = "divide"
    /\ calc.a = NaN
    /\ calc.b = Finite(0, 1)
    /\ calc.outcome.threw

\* ------------------------------------------------------------------ claims: the hunks of computeDiff
\* The lines of the hunks are those of the hunk open now.
OnlyOpenHunkGrows ==
    \A i \in 1..Len(hunks) : i # currentHunk => hunks'[i] = hunks[i]

\* What one iteration does to the hunks, as C23 has it.
HunkStep ==
    LET same == LineAt(original, oldIndex) = LineAt(modified, newIndex)
        after == hunks'[Len(hunks')]
    IN  /\ OnlyOpenHunkGrows
        /\ same /\ currentHunk = 0 => hunks' = hunks /\ currentHunk' = 0
        /\ same /\ currentHunk # 0 =>
               /\ Len(hunks') = Len(hunks)
               /\ hunks'[currentHunk].lines =
                      Append(hunks[currentHunk].lines,
                             DiffLine("unchanged", newIndex + 1, modified[newIndex + 1],
                                      oldIndex + 1))
        /\ ~same /\ currentHunk = 0 =>
               /\ Len(hunks') = Len(hunks) + 1
               /\ currentHunk' = Len(hunks')
        /\ ~same /\ currentHunk # 0 => Len(hunks') = Len(hunks) /\ currentHunk' = currentHunk
        /\ currentHunk' = 0 <=>
               \/ hunks' = <<>>
               \/ /\ Len(after.lines) > 5
                  /\ \A k \in (Len(after.lines) - 2)..Len(after.lines) :
                         after.lines[k].type = "unchanged"

\* Every hunk starts with a removed or an added line; no hunk had more than
\* five lines, the last three unchanged, before its last line was pushed; the
\* open hunk is the last one.
HunksWellFormed ==
    /\ currentHunk \in {0, Len(hunks)}
    /\ \A i \in 1..Len(hunks) :
           LET ls == hunks[i].lines
           IN  /\ ls # <<>>
               /\ ls[1].type \in {"remove", "add"}
               /\ \A n \in 6..(Len(ls) - 1) :
                      \E k \in (n - 2)..n : ls[k].type # "unchanged"

\* C23: an unchanged line is recorded only while a hunk is open; a hunk is
\* closed as soon as it has more than five lines and its last three lines are
\* unchanged; every hunk starts with a remove or add line, nothing is appended
\* to a hunk once closed, and the next mismatch opens a new hunk.
C23_HunksCloseAndReopen == []HunksWellFormed /\ [][HunkStep]_vars

\* A hunk was closed and a mismatch after it has opened a second one.
C23_Witness == Len(hunks) = 2 /\ currentHunk = 2

\* C24: the line numbers of the lines of every hunk, read in order, never
\* decrease.
C24_LineNumbersMonotonic ==
    \A i \in 1..Len(hunks) :
        \A k \in 1..(Len(hunks[i].lines) - 1) :
            hunks[i].lines[k].lineNumber <= hunks[i].lines[k + 1].lineNumber

\* The loop is over and a hunk holds a removed line, an added line and an
\* unchanged one.
C24_Witness ==
    /\ LoopDone
    /\ \E i \in 1..Len(hunks) :
           \A type \in {"remove", "add", "unchanged"} :
               \E k \in 1..Len(hunks[i].lines) : hunks[i].lines[k].type = type

Max(a, b) == IF a > b THEN a ELSE b
Min(a, b) == IF a < b THEN a ELSE b

\* The cursors are at the same index while both are within their texts, every
\* hunk starts at the same line of both, and the loop ends after as many
\* iterations as the longer text has lines.
CursorsTogether ==
    /\ oldIndex < Len(original) /\ newIndex < Len(modified) => oldIndex = newIndex
    /\ \A i \in 1..Len(hunks) : hunks[i].oldStart = hunks[i].newStart
    /\ iterations <= Max(Len(original), Len(modified))
    /\ LoopDone <=> iterations = Max(Len(original), Len(modified))

\* C29: the cursors hold the same index while both are within their texts; no
\* hunk is opened once a text is exhausted; every hunk has oldStart = newStart;
\* the loop ends after max(original lines, modified lines) iterations.
C29_NoHunkAfterExhaustion ==
    /\ CursorsTogether
    /\ \A i \in 1..Len(hunks) :
           hunks[i].oldStart <= Len(original) /\ hunks[i].newStart <= Len(modified)

\* C29, amended: a hunk opened once a text is exhausted starts at the line
\* after the last line of the shorter text.
C29_HunkAfterExhaustionAtEnd ==
    /\ CursorsTogether
    /\ \A i \in 1..Len(hunks) :
           hunks[i].oldStart <= Min(Len(original), Len(modified)) + 1

\* The loop is over, and a hunk was opened after the original was exhausted.
C29_Witness ==
    /\ LoopDone
    /\ Len(original) < Len(modified)
    /\ \E i \in 1..Len(hunks) : hunks[i].oldStart = Len(original) + 1

\* ------------------------------------------------------------------ claims: the size of the cache
\* C25: the cache never holds more than maxSize entries.
C25_NeverMoreThanMaxSize == Len(cache) <= MaxSize

\* C26: after every operation the entries that getStats reports are as many as
\* the entries stored.
C26_EntriesCountStored == stats.entries = Len(cache)

\* ------------------------------------------------------------------ claims: calls that interleave
\* C27: a get that goes on after its await leaves alone an entry stored under
\* its key while it waited: only the entry it checked can be deleted by it.
C27_ResumedGetKeepsFreshEntry ==
    [][(suspended.get # <<>> /\ suspended'.get = <<>>) =>
           LET call == suspended.get[1]
           IN  (MapHas(cache, call.key) /\ MapGet(cache, call.key) # call.entry) =>
                   (MapHas(cache', call.key)
                       /\ MapGet(cache', call.key) = MapGet(cache, call.key))]_vars

\* ------------------------------------------------------------------ claims: the result of scanDirectory
\* The lengths of the lists of an extension map, summed.
RECURSIVE ListedFiles(_)
ListedFiles(filesByType) ==
    IF filesByType = <<>> THEN 0
    ELSE Len(Head(filesByType).entry) + ListedFiles(Tail(filesByType))

\* C28: the total file count of a scan is the sum of the lengths of the lists
\* of its extension map, and each list holds files of its extension, none of
\* them twice.
C28_TotalIsSumOfLists ==
    structure.called =>
        LET r == structure.result
        IN  /\ r.totalFiles = ListedFiles(r.filesByType)
            /\ \A i \in 1..Len(r.filesByType) :
                   LET list == r.filesByType[i].entry
                   IN  /\ \A k \in 1..Len(list) : Extension(list[k]) = r.filesByType[i].key
                       /\ \A k, l \in 1..Len(list) : list[k] = list[l] => k = l

====
